---- MODULE Spec2Model ----
(***************************************************************************)
(* Walk-forward backtest of the NBA prediction scripts.                    *)
(*                                                                         *)
(* The main specification, Spec, is run_full_backtest of                   *)
(* backtest_full_model.py as a state machine: sort and split, build the    *)
(* team logs, the two feature-extraction loops, the classifier (an         *)
(* external library, modelled by its possible outcomes) and the            *)
(* evaluation.  SpecStats applies get_stats_before_date to arbitrary logs, *)
(* SpecSeason is run_backtest of backtest_2023_24_season, SpecMetrics the  *)
(* metric calculators, the game-fetch functions and backtest_accuracy on   *)
(* small inputs, SpecRequest the retry loop of NBAStatsAPI._make_request.  *)
(*                                                                         *)
(* Numbers.  Python floats are modelled exactly: an average over n <= 10   *)
(* games is held as the integer  Q * sum / n  with Q = lcm(1..10), a       *)
(* probability as an integer number of thousandths, a distance as an       *)
(* integer number of tenths of a mile.                                     *)
(***************************************************************************)
EXTENDS Integers, Sequences, FiniteSets, Bags, TLC

\* ------------------------------------------------------------------------
\* Bounds of the model
\* ------------------------------------------------------------------------
MaxDay == 3
MaxLog == 2
MaxSplitGames == 5
MaxExtractGames == 3
MaxHistoryGames == 1
MaxEvalGames == 5
MaxStatsLog == 3
MaxLastN == 2
MaxSeasonGames == 3
MaxRestDay == 3
MaxFeatureGames == 2
MaxRatingGames == 3
MaxSchedule == 2
MaxAlignGames == 4
MaxAccuracyGames == 3

\* Fixed-point denominator of averages: lcm(1..10), exact for n <= 10 games.
Q == 8 * 9 * 5 * 7

\* Python's None, as a value below every day number and DATETIME_MIN.
None == 0 - 1

\* ------------------------------------------------------------------------
\* Program constants
\* ------------------------------------------------------------------------
LAST_N_DEFAULT == 10
AVG_NBA_RATING == 112
WIN_ADJ_SCALE == 10
DATETIME_MIN == 0

\* Teams of the model: three keys of NBA_TEAM_IDS and one abbreviation that
\* is no key of it (an opponent the alias table does not normalise).
NBA_TEAM_IDS == {"BOS", "LAL", "NY"}
UnknownTeams == {"NJN"}
Teams == NBA_TEAM_IDS \cup UnknownTeams

\* Keys of TEAM_LOCATIONS among the model's teams.
TEAM_LOCATIONS == {"BOS", "LAL", "NY"}

\* haversine_distance over the coordinates of TEAM_LOCATIONS, in tenths of a
\* mile (rounded down): BOS-LAL 2592.2 miles, LAL-NY 2447.5, BOS-NY 188.2; a
\* team is 0 miles from itself.
haversine_distance(a, b) ==
    IF a = b THEN 0
    ELSE IF {a, b} = {"BOS", "LAL"} THEN 25922
    ELSE IF {a, b} = {"LAL", "NY"} THEN 24475
    ELSE 1882

\* ------------------------------------------------------------------------
\* Dates
\* ------------------------------------------------------------------------
\* A date string is its format and the day it names (a day number, >= 1):
\* "abbr" is the provider's 'OCT 25, 2023', "iso" is '2023-10-25'.
AbbrDate(d) == [fmt |-> "abbr", day |-> d]
IsoDate(d) == [fmt |-> "iso", day |-> d]
DateStrs == {AbbrDate(d) : d \in 1..MaxDay} \cup {IsoDate(2)}

\* Mutant: the ISO format is accepted too, as in advanced_features.
parse_game_date_Lenient(date_str) == date_str.day

\* strptime(date_str.title(), "%b %d, %Y"): only the abbreviated-month format
\* parses; anything else raises inside the try and None is returned.
parse_game_date(date_str) ==
    IF date_str.fmt = "abbr" THEN date_str.day ELSE None

\* The sort key of both sorts: parse_game_date(g['game_date']) or datetime.min
DateKey(g) ==
    IF parse_game_date(g.game_date) = None THEN DATETIME_MIN
    ELSE parse_game_date(g.game_date)

\* Python's sorted(seq, key=DateKey): a stable sort, ascending.
RECURSIVE InsertByKey(_, _)
InsertByKey(s, g) ==
    IF s = <<>> THEN <<g>>
    ELSE IF DateKey(s[Len(s)]) <= DateKey(g) THEN Append(s, g)
    ELSE Append(InsertByKey(SubSeq(s, 1, Len(s) - 1), g), s[Len(s)])

\* Mutant: the list is used in the order given.
sorted_AsGiven(s) == s

RECURSIVE sorted(_)
sorted(s) ==
    IF s = <<>> THEN <<>>
    ELSE InsertByKey(sorted(SubSeq(s, 1, Len(s) - 1)), s[Len(s)])

\* ------------------------------------------------------------------------
\* Records
\* ------------------------------------------------------------------------
\* A game of the list passed to run_full_backtest.
Game(h, a, w, d) ==
    [home_team |-> h, away_team |-> a, home_won |-> w, game_date |-> d]

\* A record of a team's log as fetch_team_game_stats returns it.  The box
\* score has 100 possessions, so off_rating = pts / 100 * 100 = pts.
LogRec(d, w, p) ==
    [game_date |-> d, won |-> w, pts |-> p, possessions |-> 100,
     off_rating |-> p]

LogDates == {AbbrDate(d) : d \in 1..MaxLog} \cup {IsoDate(1)}
LogRecs == {LogRec(d, w, IF w THEN 120 ELSE 100) : d \in LogDates, w \in BOOLEAN}

SeqsUpTo(S, n) == UNION {[1..k -> S] : k \in 0..n}

Min(a, b) == IF a < b THEN a ELSE b

RECURSIVE SumSeq(_)
SumSeq(s) == IF s = <<>> THEN 0 ELSE s[1] + SumSeq(Tail(s))

\* ------------------------------------------------------------------------
\* advanced_stats.calculate_team_average_stats
\* ------------------------------------------------------------------------
NeutralStats ==
    [avg_pts |-> 0, avg_off_rating |-> 100 * Q, avg_possessions |-> 100 * Q,
     win_pct |-> Q \div 2]

calculate_team_average_stats(games_, last_n_games) ==
    IF games_ = <<>> THEN NeutralStats
    ELSE
      LET recent_games == SubSeq(games_, 1,
                                 IF last_n_games < Len(games_)
                                 THEN last_n_games ELSE Len(games_))
          n == Len(recent_games)
          total_pts == SumSeq([k \in 1..n |-> recent_games[k].pts])
          total_off_rating == SumSeq([k \in 1..n |-> recent_games[k].off_rating])
          total_possessions == SumSeq([k \in 1..n |-> recent_games[k].possessions])
          wins == Cardinality({k \in 1..n : recent_games[k].won})
      IN [avg_pts |-> IF n > 0 THEN (total_pts * Q) \div n ELSE 0,
          avg_off_rating |-> IF n > 0 THEN (total_off_rating * Q) \div n
                             ELSE 100 * Q,
          avg_possessions |-> IF n > 0 THEN (total_possessions * Q) \div n
                              ELSE 100 * Q,
          win_pct |-> IF n > 0 THEN (wins * Q) \div n ELSE Q \div 2,
          num_games |-> n]

\* ------------------------------------------------------------------------
\* backtest_full_model.get_stats_before_date
\* ------------------------------------------------------------------------
\* Mutant: "d <= before_date", which lets a same-day record through.
IsBefore_SameDay(g, before_date) ==
    /\ parse_game_date(g.game_date) # None
    /\ parse_game_date(g.game_date) <= before_date

\* past_games: the records whose date parses and is before before_date.
IsBefore(g, before_date) ==
    /\ parse_game_date(g.game_date) # None
    /\ parse_game_date(g.game_date) < before_date

PastGames(team_log, before_date) ==
    SelectSeq(team_log, LAMBDA g : IsBefore(g, before_date))

\* Mutant: past_games[:last_n], the oldest records instead of the latest.
LastSlice_First(s, last_n) ==
    IF last_n >= Len(s) THEN s ELSE SubSeq(s, 1, last_n)

\* recent = past_games[-last_n:]  (for last_n = 0 the slice [-0:] is the
\* whole list).
LastSlice(s, last_n) ==
    IF last_n = 0 \/ last_n >= Len(s) THEN s
    ELSE SubSeq(s, Len(s) - last_n + 1, Len(s))

RecentGames(team_log, before_date, last_n) ==
    LastSlice(PastGames(team_log, before_date), last_n)

get_stats_before_date(team_log, before_date, last_n) ==
    calculate_team_average_stats(RecentGames(team_log, before_date, last_n),
                                 last_n)

\* ------------------------------------------------------------------------
\* backtest_full_model.compute_net_rating, calculate_travel_distance
\* ------------------------------------------------------------------------
\* Mutant: the win-rate adjustment is left out.
compute_net_rating_NoWinAdj(stats) ==
    stats.avg_off_rating - AVG_NBA_RATING * Q

compute_net_rating(stats) ==
    LET estimated_net == stats.avg_off_rating - AVG_NBA_RATING * Q
        win_adj == (stats.win_pct - Q \div 2) * WIN_ADJ_SCALE
    IN estimated_net + win_adj

\* Mutant: only the away team is looked up in the table.
calculate_travel_distance_AwayOnly(away_team, home_team) ==
    IF away_team \notin TEAM_LOCATIONS THEN 0
    ELSE haversine_distance(away_team, home_team)

calculate_travel_distance(away_team, home_team) ==
    IF away_team \notin TEAM_LOCATIONS \/ home_team \notin TEAM_LOCATIONS
    THEN 0
    ELSE haversine_distance(away_team, home_team)

\* Mutant: "<=" in the comparisons, exactly 500 miles is category 0.
travel_category_Inclusive(travel_distance) ==
    IF travel_distance <= 5000 THEN 0
    ELSE IF travel_distance <= 15000 THEN 1
    ELSE IF travel_distance <= 25000 THEN 2
    ELSE 3

\* The travel category of extract_features; distances in tenths of a mile.
travel_category(travel_distance) ==
    IF travel_distance < 5000 THEN 0
    ELSE IF travel_distance < 15000 THEN 1
    ELSE IF travel_distance < 25000 THEN 2
    ELSE 3

\* ------------------------------------------------------------------------
\* backtest_full_model.build_team_game_logs
\* ------------------------------------------------------------------------
\* team_logs.get(team, []): the log of a team, or [] when it has no key.
LogOf(logs, team) == IF team \in DOMAIN logs THEN logs[team] ELSE <<>>

\* Mutant: the fetched list is reversed, as if it always came newest first,
\* instead of sorted.
build_team_game_logs_Reversed(games_, game_data) ==
    LET all_teams == {games_[k].home_team : k \in 1..Len(games_)}
                     \cup {games_[k].away_team : k \in 1..Len(games_)}
    IN [t \in all_teams |->
          IF t \in NBA_TEAM_IDS
          THEN [k \in 1..Len(game_data[t]) |->
                  game_data[t][Len(game_data[t]) + 1 - k]]
          ELSE <<>>]

\* game_data is what fetch_team_game_stats returned for each known team.
build_team_game_logs(games_, game_data) ==
    LET all_teams == {games_[k].home_team : k \in 1..Len(games_)}
                     \cup {games_[k].away_team : k \in 1..Len(games_)}
        known_teams == {t \in all_teams : t \in NBA_TEAM_IDS}
    IN [t \in all_teams |->
          IF t \in known_teams THEN sorted(game_data[t]) ELSE <<>>]

\* ------------------------------------------------------------------------
\* backtest_full_model.extract_features
\* ------------------------------------------------------------------------
\* Mutant: no check of the parsed date, nothing raises.
ExtractRaises_Never(game, logs) == FALSE

\* Mutant: a side without any log also raises.
ExtractRaises_NoLog(game, logs) ==
    \/ parse_game_date(game.game_date) = None
    \/ LogOf(logs, game.home_team) = <<>>
    \/ LogOf(logs, game.away_team) = <<>>

\* Mutant: a side without a game before the matchup also raises.
ExtractRaises_NoHistory(game, logs) ==
    \/ parse_game_date(game.game_date) = None
    \/ PastGames(LogOf(logs, game.home_team),
                 parse_game_date(game.game_date)) = <<>>
    \/ PastGames(LogOf(logs, game.away_team),
                 parse_game_date(game.game_date)) = <<>>

\* extract_features(game, logs) raises (ValueError) exactly when the game's
\* date does not parse; nothing else in it can raise.
ExtractRaises(game, logs) == parse_game_date(game.game_date) = None

\* Mutant: the vector without the home-court flag, eleven components.
extract_features_NoHomeFlag(game, logs) ==
    LET game_date == parse_game_date(game.game_date)
        home_stats == get_stats_before_date(LogOf(logs, game.home_team),
                                            game_date, LAST_N_DEFAULT)
        away_stats == get_stats_before_date(LogOf(logs, game.away_team),
                                            game_date, LAST_N_DEFAULT)
        home_net_rating == compute_net_rating(home_stats)
        away_net_rating == compute_net_rating(away_stats)
        travel_distance == calculate_travel_distance(game.away_team,
                                                     game.home_team)
    IN << home_net_rating, away_net_rating,
          home_net_rating - away_net_rating,
          travel_distance, travel_category(travel_distance),
          home_stats.win_pct, away_stats.win_pct,
          home_stats.win_pct - away_stats.win_pct,
          home_stats.avg_off_rating, away_stats.avg_off_rating,
          home_stats.avg_off_rating - away_stats.avg_off_rating >>

extract_features(game, logs) ==
    LET game_date == parse_game_date(game.game_date)
        home_stats == get_stats_before_date(LogOf(logs, game.home_team),
                                            game_date, LAST_N_DEFAULT)
        away_stats == get_stats_before_date(LogOf(logs, game.away_team),
                                            game_date, LAST_N_DEFAULT)
        home_net_rating == compute_net_rating(home_stats)
        away_net_rating == compute_net_rating(away_stats)
        travel_distance == calculate_travel_distance(game.away_team,
                                                     game.home_team)
    IN << home_net_rating,
          away_net_rating,
          home_net_rating - away_net_rating,
          1,
          travel_distance,
          travel_category(travel_distance),
          home_stats.win_pct,
          away_stats.win_pct,
          home_stats.win_pct - away_stats.win_pct,
          home_stats.avg_off_rating,
          away_stats.avg_off_rating,
          home_stats.avg_off_rating - away_stats.avg_off_rating >>

\* ------------------------------------------------------------------------
\* backtest_full_model.run_full_backtest
\* ------------------------------------------------------------------------
VARIABLES
    XGBOOST_AVAILABLE,  \* the module flag set by the import of xgboost
    games,              \* the list passed to run_full_backtest
    game_data,          \* team -> what fetch_team_game_stats returns for it
    pc,                 \* position in run_full_backtest
    games_sorted, train_games, test_games,
    team_logs,
    i,                  \* index of the extraction loop in progress
    X_train, y_train,
    X_test, y_test, test_game_info,
    y_pred_proba, y_pred,
    result,             \* the returned tuple, by name
    \* one call of extract_features / get_stats_before_date on given logs
    st_pc, st_game, st_logs, st_last_n, st_built, st_out,
    \* backtest_2023_24_season: run_backtest, then display_results
    se_pc, se_games, se_tracker, se_i, se_correct, se_total, se_results,
    se_ret, se_hc,
    \* one call of a metric calculator: the call, and what it returned
    mt_pc, mt_call, mt_out,
    \* NBAStatsAPI._make_request: position, loop variable, what each
    \* requests.get gave, seconds slept, return value
    rq_pc, attempt, rq_log, rq_slept, rq_ret

mainVars == << XGBOOST_AVAILABLE, games, game_data, pc, games_sorted,
               train_games, test_games, team_logs, i, X_train, y_train,
               X_test, y_test, test_game_info, y_pred_proba, y_pred, result >>

statsVars == << st_pc, st_game, st_logs, st_last_n, st_built, st_out >>

seasonVars == << se_pc, se_games, se_tracker, se_i, se_correct, se_total,
                 se_results, se_ret, se_hc >>

metricsVars == << mt_pc, mt_call, mt_out >>

requestVars == << rq_pc, attempt, rq_log, rq_slept, rq_ret >>

vars == << mainVars, statsVars, seasonVars, metricsVars, requestVars >>

\* What the steps of one function leave alone: the state of the others.
notMain == << statsVars, seasonVars, metricsVars, requestVars >>
notStats == << mainVars, seasonVars, metricsVars, requestVars >>
notSeason == << mainVars, statsVars, metricsVars, requestVars >>
notMetrics == << mainVars, statsVars, seasonVars, requestVars >>
notRequest == << mainVars, statsVars, seasonVars, metricsVars >>

\* Probabilities model.predict may return, in thousandths.
Probs == {350, 500, 501, 650, 900}

\* Mutant: the 0.8 of backtest_accuracy.backtest_model.
split_idx_Half(n) == n \div 2

split_idx_80(n) == (n * 4) \div 5

\* split_idx = int(len(games_sorted) * 0.75)
split_idx(n) == (n * 3) \div 4

\* Mutant: the label of the away side, 1 if the home team lost.
Label_AwayWon(game) == IF game.home_won THEN 0 ELSE 1

\* 1 if game['home_won'] else 0
Label(game) == IF game.home_won THEN 1 ELSE 0

\* Mutant: p >= 0.5
PredLabel_Geq(p) == IF p >= 500 THEN 1 ELSE 0

\* y_pred = [1 if p > 0.5 else 0 for p in y_pred_proba]
PredLabel(p) == IF p > 500 THEN 1 ELSE 0

Abs(x) == IF x < 0 THEN 0 - x ELSE x

\* Mutant: abs(p - 0.5) >= 0.15
HighConf_Geq(p) == Abs(p - 500) >= 150

\* abs(p - 0.5) > 0.15
HighConf(p) == Abs(p - 500) > 150

\* --- the inputs of the model --------------------------------------------
\* The provider returns a log newest first.
StdData ==
    [t \in NBA_TEAM_IDS |->
       IF t = "BOS"
       THEN << LogRec(AbbrDate(2), TRUE, 120), LogRec(AbbrDate(1), FALSE, 100) >>
       ELSE << LogRec(AbbrDate(1), TRUE, 120) >>]

\* Many games of one pairing, in every order of dates.
SplitGames ==
    {Game("BOS", "LAL", TRUE, d) :
       d \in {AbbrDate(1), AbbrDate(MaxDay), IsoDate(2)}}

\* Every fetch failed: fetch_team_game_stats returned [] for each team.
EmptyData == [t \in NBA_TEAM_IDS |-> <<>>]

\* Games of known and unknown teams, with dates that parse and one that does
\* not.
Matchups == {<<"BOS", "LAL">>, <<"BOS", "NJN">>}
ExtractGames ==
    {Game(m[1], m[2], TRUE, d) :
       m \in Matchups,
       d \in {AbbrDate(1), AbbrDate(2), AbbrDate(MaxDay), IsoDate(2)}}

\* One pairing on every date, against every small log of BOS, in every order
\* of arrival.
HistoryGames ==
    {Game("BOS", "LAL", TRUE, d) :
       d \in {AbbrDate(1), AbbrDate(2), AbbrDate(MaxDay), IsoDate(2)}}

HistoryData ==
    {[t \in NBA_TEAM_IDS |-> IF t = "BOS" THEN b ELSE StdData["LAL"]] :
       b \in SeqsUpTo(LogRecs, MaxLog)}

\* Games on consecutive days with every outcome.
EvalGames ==
    UNION {{[k \in 1..n |->
               Game("BOS", "LAL", w[k], AbbrDate(IF k < MaxDay THEN k ELSE MaxDay))] :
             w \in [1..n -> BOOLEAN]} : n \in 0..MaxEvalGames}

\* Games of both outcomes next to one whose date does not parse.
AlignGames ==
    {Game("BOS", "LAL", TRUE, AbbrDate(1)),
     Game("BOS", "LAL", FALSE, AbbrDate(2)),
     Game("BOS", "LAL", TRUE, IsoDate(2))}

\* run_full_backtest is not running.
MainIdle ==
    /\ XGBOOST_AVAILABLE = TRUE /\ games = <<>> /\ game_data = <<>>
    /\ pc = "idle"
    /\ games_sorted = <<>> /\ train_games = <<>> /\ test_games = <<>>
    /\ team_logs = <<>>
    /\ i = 0
    /\ X_train = <<>> /\ y_train = <<>>
    /\ X_test = <<>> /\ y_test = <<>> /\ test_game_info = <<>>
    /\ y_pred_proba = <<>> /\ y_pred = <<>>
    /\ result = None

StatsIdle ==
    /\ st_pc = "idle" /\ st_game = None /\ st_logs = <<>> /\ st_last_n = 0
    /\ st_built = FALSE /\ st_out = None

SeasonIdle ==
    /\ se_pc = "idle" /\ se_games = <<>> /\ se_i = 0
    /\ se_tracker = [is_tracker |-> FALSE, injuries |-> <<>>]
    /\ se_correct = 0 /\ se_total = 0 /\ se_results = <<>> /\ se_ret = None
    /\ se_hc = None

MetricsIdle ==
    mt_pc = "idle" /\ mt_call = [op |-> "none"] /\ mt_out = None

\* _make_request is not running.
RequestIdle ==
    /\ rq_pc = "idle" /\ attempt = 0 /\ rq_log = <<>> /\ rq_slept = 0
    /\ rq_ret = None

Init ==
    /\ StatsIdle /\ SeasonIdle /\ MetricsIdle /\ RequestIdle
    /\ XGBOOST_AVAILABLE \in BOOLEAN
    /\ \/ games \in SeqsUpTo(SplitGames, MaxSplitGames) /\ game_data = StdData
       \/ games \in SeqsUpTo(ExtractGames, MaxExtractGames) /\ game_data = StdData
       \/ games \in SeqsUpTo(HistoryGames, MaxHistoryGames)
          /\ game_data \in HistoryData
       \/ games \in EvalGames /\ game_data = StdData
       \/ games \in SeqsUpTo(AlignGames, MaxAlignGames)
          /\ game_data \in {StdData, EmptyData}
    /\ pc = "start"
    /\ games_sorted = <<>> /\ train_games = <<>> /\ test_games = <<>>
    /\ team_logs = <<>>
    /\ i = 0
    /\ X_train = <<>> /\ y_train = <<>>
    /\ X_test = <<>> /\ y_test = <<>> /\ test_game_info = <<>>
    /\ y_pred_proba = <<>> /\ y_pred = <<>>
    /\ result = None

\* --- the steps ----------------------------------------------------------
\* if not XGBOOST_AVAILABLE: return
ReturnNoXgboost ==
    /\ pc = "start" /\ ~XGBOOST_AVAILABLE
    /\ pc' = "returned_none"
    /\ UNCHANGED notMain
    /\ UNCHANGED << XGBOOST_AVAILABLE, games, game_data, games_sorted,
                    train_games, test_games, team_logs, i, X_train, y_train,
                    X_test, y_test, test_game_info, y_pred_proba, y_pred,
                    result >>

SortAndSplit ==
    /\ pc = "start" /\ XGBOOST_AVAILABLE
    /\ games_sorted' = sorted(games)
    /\ train_games' = SubSeq(games_sorted', 1, split_idx(Len(games_sorted')))
    /\ test_games' = SubSeq(games_sorted', split_idx(Len(games_sorted')) + 1,
                            Len(games_sorted'))
    /\ pc' = "build_logs"
    /\ UNCHANGED notMain
    /\ UNCHANGED << XGBOOST_AVAILABLE, games, game_data, team_logs, i, X_train,
                    y_train, X_test, y_test, test_game_info, y_pred_proba,
                    y_pred, result >>

BuildLogs ==
    /\ pc = "build_logs"
    /\ team_logs' = build_team_game_logs(games_sorted, game_data)
    /\ i' = 0
    /\ pc' = "train_loop"
    /\ UNCHANGED notMain
    /\ UNCHANGED << XGBOOST_AVAILABLE, games, game_data, games_sorted,
                    train_games, test_games, X_train, y_train, X_test, y_test,
                    test_game_info, y_pred_proba, y_pred, result >>

TrainExtract ==
    /\ pc = "train_loop" /\ i < Len(train_games)
    /\ ~ExtractRaises(train_games[i + 1], team_logs)
    /\ X_train' = Append(X_train, extract_features(train_games[i + 1], team_logs))
    /\ y_train' = Append(y_train, Label(train_games[i + 1]))
    /\ i' = i + 1
    /\ UNCHANGED notMain
    /\ UNCHANGED << XGBOOST_AVAILABLE, games, game_data, pc, games_sorted,
                    train_games, test_games, team_logs, X_test, y_test,
                    test_game_info, y_pred_proba, y_pred, result >>

\* except: continue
TrainSkip ==
    /\ pc = "train_loop" /\ i < Len(train_games)
    /\ ExtractRaises(train_games[i + 1], team_logs)
    /\ i' = i + 1
    /\ UNCHANGED notMain
    /\ UNCHANGED << XGBOOST_AVAILABLE, games, game_data, pc, games_sorted,
                    train_games, test_games, team_logs, X_train, y_train,
                    X_test, y_test, test_game_info, y_pred_proba, y_pred,
                    result >>

TrainLoopDone ==
    /\ pc = "train_loop" /\ i = Len(train_games)
    /\ i' = 0
    /\ pc' = "test_loop"
    /\ UNCHANGED notMain
    /\ UNCHANGED << XGBOOST_AVAILABLE, games, game_data, games_sorted,
                    train_games, test_games, team_logs, X_train, y_train,
                    X_test, y_test, test_game_info, y_pred_proba, y_pred,
                    result >>

TestExtract ==
    /\ pc = "test_loop" /\ i < Len(test_games)
    /\ ~ExtractRaises(test_games[i + 1], team_logs)
    /\ X_test' = Append(X_test, extract_features(test_games[i + 1], team_logs))
    /\ y_test' = Append(y_test, Label(test_games[i + 1]))
    /\ test_game_info' = Append(test_game_info, test_games[i + 1])
    /\ i' = i + 1
    /\ UNCHANGED notMain
    /\ UNCHANGED << XGBOOST_AVAILABLE, games, game_data, pc, games_sorted,
                    train_games, test_games, team_logs, X_train, y_train,
                    y_pred_proba, y_pred, result >>

\* Mutant: the skipped game is still recorded in test_game_info.
TestSkip_KeepsGame ==
    /\ pc = "test_loop" /\ i < Len(test_games)
    /\ ExtractRaises(test_games[i + 1], team_logs)
    /\ test_game_info' = Append(test_game_info, test_games[i + 1])
    /\ i' = i + 1
    /\ UNCHANGED notMain
    /\ UNCHANGED << XGBOOST_AVAILABLE, games, game_data, pc, games_sorted,
                    train_games, test_games, team_logs, X_train, y_train,
                    X_test, y_test, y_pred_proba, y_pred, result >>

\* except: continue
TestSkip ==
    /\ pc = "test_loop" /\ i < Len(test_games)
    /\ ExtractRaises(test_games[i + 1], team_logs)
    /\ i' = i + 1
    /\ UNCHANGED notMain
    /\ UNCHANGED << XGBOOST_AVAILABLE, games, game_data, pc, games_sorted,
                    train_games, test_games, team_logs, X_train, y_train,
                    X_test, y_test, test_game_info, y_pred_proba, y_pred,
                    result >>

TestLoopDone ==
    /\ pc = "test_loop" /\ i = Len(test_games)
    /\ pc' = "fit"
    /\ UNCHANGED notMain
    /\ UNCHANGED << XGBOOST_AVAILABLE, games, game_data, games_sorted,
                    train_games, test_games, team_logs, i, X_train, y_train,
                    X_test, y_test, test_game_info, y_pred_proba, y_pred,
                    result >>

\* xgb.DMatrix and xgb.train return.
FitOk ==
    /\ pc = "fit"
    /\ pc' = "predict"
    /\ UNCHANGED notMain
    /\ UNCHANGED << XGBOOST_AVAILABLE, games, game_data, games_sorted,
                    train_games, test_games, team_logs, i, X_train, y_train,
                    X_test, y_test, test_game_info, y_pred_proba, y_pred,
                    result >>

\* The labels of a partition are of one class only (or there are none).
OneClass(y) == \A j, k \in 1..Len(y) : y[j] = y[k]

\* The library is external: on an empty matrix, or on training labels of a
\* single class, it may raise, and the call is not guarded, so the exception
\* leaves run_full_backtest.
FitRaises ==
    /\ pc = "fit"
    /\ X_train = <<>> \/ X_test = <<>> \/ OneClass(y_train)
    /\ pc' = "raised"
    /\ UNCHANGED notMain
    /\ UNCHANGED << XGBOOST_AVAILABLE, games, game_data, games_sorted,
                    train_games, test_games, team_logs, i, X_train, y_train,
                    X_test, y_test, test_game_info, y_pred_proba, y_pred,
                    result >>

\* model.predict(dtest): one probability per test row, any values.
Predict ==
    /\ pc = "predict"
    /\ \E proba \in [1..Len(y_test) -> Probs] :
         /\ y_pred_proba' = proba
         /\ y_pred' = [k \in 1..Len(y_test) |-> PredLabel(proba[k])]
    /\ pc' = "evaluate"
    /\ UNCHANGED notMain
    /\ UNCHANGED << XGBOOST_AVAILABLE, games, game_data, games_sorted,
                    train_games, test_games, team_logs, i, X_train, y_train,
                    X_test, y_test, test_game_info, result >>

\* Mutant: the accuracy as a fraction, without the "* 100".
BacktestResult_Fraction ==
    LET n == Len(y_test)
        correct == Cardinality({k \in 1..n : y_pred[k] = y_test[k]})
    IN [accuracy |-> (correct * Q) \div n, correct |-> correct, total |-> n,
        high_conf_correct |->
            Cardinality({k \in 1..n : y_pred[k] = y_test[k]
                                      /\ Abs(y_pred_proba[k] - 500) > 150}),
        high_conf_total |->
            Cardinality({k \in 1..n : Abs(y_pred_proba[k] - 500) > 150}),
        test_game_info |-> test_game_info, y_pred |-> y_pred,
        y_test |-> y_test]

\* The tuple returned at the end of run_full_backtest; accuracy is a
\* percentage, held times Q.
BacktestResult ==
    LET n == Len(y_test)
        correct == Cardinality({k \in 1..n : y_pred[k] = y_test[k]})
        accuracy == (correct * 100 * Q) \div n
        high_conf_correct ==
            Cardinality({k \in 1..n : y_pred[k] = y_test[k]
                                      /\ HighConf(y_pred_proba[k])})
        high_conf_total == Cardinality({k \in 1..n : HighConf(y_pred_proba[k])})
    IN [accuracy |-> accuracy, correct |-> correct, total |-> n,
        high_conf_correct |-> high_conf_correct,
        high_conf_total |-> high_conf_total,
        test_game_info |-> test_game_info, y_pred |-> y_pred,
        y_test |-> y_test]

\* Mutant: a run with fewer than two test rows is refused.
AccuracyRaises_BelowTwo(n) == n < 2

\* correct / len(y_test) raises ZeroDivisionError exactly for no test rows.
AccuracyRaises(n) == n = 0

Evaluate ==
    /\ pc = "evaluate" /\ ~AccuracyRaises(Len(y_test))
    /\ result' = BacktestResult
    /\ pc' = "done"
    /\ UNCHANGED notMain
    /\ UNCHANGED << XGBOOST_AVAILABLE, games, game_data, games_sorted,
                    train_games, test_games, team_logs, i, X_train, y_train,
                    X_test, y_test, test_game_info, y_pred_proba, y_pred >>

\* accuracy = correct / len(y_test) * 100 with no test rows: ZeroDivisionError
EvaluateRaises ==
    /\ pc = "evaluate" /\ AccuracyRaises(Len(y_test))
    /\ pc' = "raised"
    /\ UNCHANGED notMain
    /\ UNCHANGED << XGBOOST_AVAILABLE, games, game_data, games_sorted,
                    train_games, test_games, team_logs, i, X_train, y_train,
                    X_test, y_test, test_game_info, y_pred_proba, y_pred,
                    result >>

Next ==
    \/ ReturnNoXgboost
    \/ SortAndSplit
    \/ BuildLogs
    \/ TrainExtract
    \/ TrainSkip
    \/ TrainLoopDone
    \/ TestExtract
    \/ TestSkip
    \/ TestLoopDone
    \/ FitOk
    \/ FitRaises
    \/ Predict
    \/ Evaluate
    \/ EvaluateRaises

Spec == Init /\ [][Next]_vars

\* ------------------------------------------------------------------------
\* One call of extract_features or of get_stats_before_date, on logs in any
\* order (as fetched) or as build_team_game_logs returns them
\* ------------------------------------------------------------------------
StatsRecs == {LogRec(d, w, IF w THEN 120 ELSE 100) : d \in DateStrs, w \in BOOLEAN}

StatsGames ==
    {Game(m[1], m[2], TRUE, d) :
       m \in {<<"BOS", "LAL">>, <<"LAL", "BOS">>}, d \in DateStrs}

InitStats ==
    /\ MainIdle /\ SeasonIdle /\ MetricsIdle /\ RequestIdle
    /\ st_pc = "fetched"
    /\ st_game \in StatsGames
    /\ st_logs \in {[t \in NBA_TEAM_IDS |-> IF t = "BOS" THEN b ELSE StdData["LAL"]] :
                      b \in SeqsUpTo(StatsRecs, MaxStatsLog)}
    /\ st_last_n \in 1..MaxLastN
    /\ st_built = FALSE
    /\ st_out = None

StatsBuildLogs ==
    /\ st_pc = "fetched"
    /\ st_logs' = build_team_game_logs(<<st_game>>, st_logs)
    /\ st_built' = TRUE
    /\ st_pc' = "built"
    /\ UNCHANGED << st_game, st_last_n, st_out >>
    /\ UNCHANGED notStats

\* extract_features(st_game, st_logs) returns; home_recent and away_recent
\* are the records its two calls of get_stats_before_date averaged.
StatsExtract ==
    /\ st_pc \in {"fetched", "built"}
    /\ ~ExtractRaises(st_game, st_logs)
    /\ st_out' =
         [op |-> "extract_features",
          features |-> extract_features(st_game, st_logs),
          home_recent |-> RecentGames(LogOf(st_logs, st_game.home_team),
                                      parse_game_date(st_game.game_date),
                                      LAST_N_DEFAULT),
          away_recent |-> RecentGames(LogOf(st_logs, st_game.away_team),
                                      parse_game_date(st_game.game_date),
                                      LAST_N_DEFAULT)]
    /\ st_pc' = "done"
    /\ UNCHANGED << st_game, st_logs, st_last_n, st_built >>
    /\ UNCHANGED notStats

StatsExtractRaises ==
    /\ st_pc \in {"fetched", "built"}
    /\ ExtractRaises(st_game, st_logs)
    /\ st_out' = [op |-> "raised"]
    /\ st_pc' = "done"
    /\ UNCHANGED << st_game, st_logs, st_last_n, st_built >>
    /\ UNCHANGED notStats

\* get_stats_before_date(log of BOS, date of st_game, st_last_n)
StatsGetStats ==
    /\ st_pc \in {"fetched", "built"}
    /\ parse_game_date(st_game.game_date) # None
    /\ st_out' =
         [op |-> "get_stats_before_date",
          recent |-> RecentGames(st_logs["BOS"],
                                 parse_game_date(st_game.game_date), st_last_n),
          stats |-> get_stats_before_date(st_logs["BOS"],
                                          parse_game_date(st_game.game_date),
                                          st_last_n)]
    /\ st_pc' = "done"
    /\ UNCHANGED << st_game, st_logs, st_last_n, st_built >>
    /\ UNCHANGED notStats

NextStats ==
    \/ StatsBuildLogs
    \/ StatsExtract
    \/ StatsExtractRaises
    \/ StatsGetStats

SpecStats == InitStats /\ [][NextStats]_vars

\* ------------------------------------------------------------------------
\* backtest_2023_24_season.run_backtest and display_results
\* ------------------------------------------------------------------------
\* The if-chain of calculate_travel_fatigue: the adjustment to the win
\* probability, in thousandths, for a distance in tenths of a mile.
fatigue_for_distance(distance) ==
    IF distance < 5000 THEN 0 - 5
    ELSE IF distance < 15000 THEN 0 - 20
    ELSE IF distance < 25000 THEN 0 - 50
    ELSE 0 - 70

\* predict_vegas_with_injuries.calculate_travel_fatigue, in thousandths.
calculate_travel_fatigue(away_team, home_team) ==
    IF away_team \notin TEAM_LOCATIONS \/ home_team \notin TEAM_LOCATIONS
    THEN 0
    ELSE fatigue_for_distance(haversine_distance(away_team, home_team))

\* An InjuryTracker is the total impact of the OUT players of each team that
\* has injuries, in tenths of a point (InjuryTracker.get_injury_impact):
\* none; LeBron James out (-8.5); Jayson Tatum and Jaylen Brown out (-15.9).
InjuryTrackers ==
    { [is_tracker |-> TRUE, injuries |-> f] :
        f \in { [t \in {} |-> 0], [t \in {"LAL"} |-> 0 - 85],
                [t \in {"BOS"} |-> 0 - 159] } }

\* injury_tracker=None
NoTracker == [is_tracker |-> FALSE, injuries |-> [t \in {} |-> 0]]

get_injury_impact(tracker, team_abbr) ==
    IF team_abbr \notin DOMAIN tracker.injuries THEN 0
    ELSE tracker.injuries[team_abbr]

\* InjuryTracker.adjust_prediction_for_injuries: 1 point = 0.02, clamped to
\* [0, 1]; probabilities in thousandths, impacts in tenths of a point.
adjust_prediction_for_injuries(tracker, home_team, away_team, base_home_win_prob) ==
    LET net_impact == get_injury_impact(tracker, home_team)
                      - get_injury_impact(tracker, away_team)
        adjusted_prob == base_home_win_prob + net_impact * 2
    IN IF adjusted_prob > 1000 THEN 1000
       ELSE IF adjusted_prob < 0 THEN 0
       ELSE adjusted_prob

\* Mutant: the travel impact is added with its sign.
predicted_home_win_prob_Signed(game, tracker) ==
    LET travel_impact == calculate_travel_fatigue(game.away_team, game.home_team)
        base_prob == 500 + 35 + travel_impact
    IN IF tracker.is_tracker
       THEN adjust_prediction_for_injuries(tracker, game.home_team,
                                           game.away_team, base_prob)
       ELSE base_prob

\* The probability run_backtest predicts for one game.
predicted_home_win_prob(game, tracker) ==
    LET travel_impact == calculate_travel_fatigue(game.away_team, game.home_team)
        base_prob == 500 + 35 + Abs(travel_impact)
    IN IF tracker.is_tracker
       THEN adjust_prediction_for_injuries(tracker, game.home_team,
                                           game.away_team, base_prob)
       ELSE base_prob

\* abs(r['prob'] - 0.5) > 0.1 of display_results
SeasonHighConf(p) == Abs(p - 500) > 100

SeasonGames ==
    {Game(m[1], m[2], w, AbbrDate(1)) :
       m \in {<<"BOS", "LAL">>, <<"LAL", "BOS">>, <<"NY", "BOS">>,
              <<"BOS", "NJN">>},
       w \in BOOLEAN}

InitSeason ==
    /\ MainIdle /\ StatsIdle /\ MetricsIdle /\ RequestIdle
    /\ se_pc = "start"
    /\ se_games \in SeqsUpTo(SeasonGames, MaxSeasonGames)
    /\ se_tracker \in {NoTracker} \cup InjuryTrackers
    /\ se_i = 0 /\ se_correct = 0 /\ se_total = 0 /\ se_results = <<>>
    /\ se_ret = None /\ se_hc = None

\* if not games: return 0, 0, 0
SeasonNoGames ==
    /\ se_pc = "start" /\ se_games = <<>>
    /\ se_ret' = << 0, 0, 0 >>
    /\ se_pc' = "returned_empty"
    /\ UNCHANGED << se_games, se_tracker, se_i, se_correct, se_total,
                    se_results, se_hc >>
    /\ UNCHANGED notSeason

SeasonStart ==
    /\ se_pc = "start" /\ se_games # <<>>
    /\ se_pc' = "loop"
    /\ UNCHANGED << se_games, se_tracker, se_i, se_correct, se_total,
                    se_results, se_ret, se_hc >>
    /\ UNCHANGED notSeason

\* One iteration of the loop over games.
SeasonGame ==
    /\ se_pc = "loop" /\ se_i < Len(se_games)
    /\ LET game == se_games[se_i + 1]
           prob == predicted_home_win_prob(game, se_tracker)
           predicted_home_wins == prob > 500
           is_correct == (predicted_home_wins = game.home_won)
       IN /\ se_correct' = IF is_correct THEN se_correct + 1 ELSE se_correct
          /\ se_total' = se_total + 1
          /\ se_results' = Append(se_results,
                [game |-> << game.home_team, game.away_team >>,
                 predicted_home_wins |-> predicted_home_wins,
                 actual_home_won |-> game.home_won,
                 correct |-> is_correct,
                 prob |-> prob])
    /\ se_i' = se_i + 1
    /\ UNCHANGED << se_pc, se_games, se_tracker, se_ret, se_hc >>
    /\ UNCHANGED notSeason

\* accuracy = (correct / total * 100) if total > 0 else 0, held times Q
SeasonReturn ==
    /\ se_pc = "loop" /\ se_i = Len(se_games)
    /\ se_ret' = [accuracy |-> IF se_total > 0
                               THEN (se_correct * 100 * Q) \div se_total ELSE 0,
                  correct |-> se_correct, total |-> se_total,
                  results |-> se_results]
    /\ se_pc' = "returned"
    /\ UNCHANGED << se_games, se_tracker, se_i, se_correct, se_total,
                    se_results, se_hc >>
    /\ UNCHANGED notSeason

\* display_results(accuracy, correct, total, results): its two counts
SeasonDisplay ==
    /\ se_pc = "returned"
    /\ se_hc' =
         [high_conf_correct |->
             Cardinality({k \in 1..Len(se_ret.results) :
                            /\ se_ret.results[k].correct
                            /\ SeasonHighConf(se_ret.results[k].prob)}),
          high_conf_total |->
             Cardinality({k \in 1..Len(se_ret.results) :
                            SeasonHighConf(se_ret.results[k].prob)})]
    /\ se_pc' = "displayed"
    /\ UNCHANGED << se_games, se_tracker, se_i, se_correct, se_total,
                    se_results, se_ret >>
    /\ UNCHANGED notSeason

NextSeason ==
    \/ SeasonNoGames
    \/ SeasonStart
    \/ SeasonGame
    \/ SeasonReturn
    \/ SeasonDisplay

SpecSeason == InitSeason /\ [][NextSeason]_vars

\* Both backtests: run_full_backtest, and run_backtest with display_results.
SpecBacktests == (Init \/ InitSeason) /\ [][Next \/ NextSeason]_vars

\* ------------------------------------------------------------------------
\* The metric calculators, each called once on inputs of small sets
\* ------------------------------------------------------------------------
\* Mutant: offensive rebounds added instead of subtracted.
calculate_possessions_OrebAdded(fga, fta, oreb, tov) ==
    100 * fga + 44 * fta + 100 * oreb + 100 * tov

\* advanced_stats.calculate_possessions, in hundredths of a possession:
\* fga + (0.44 * fta) - oreb + tov
calculate_possessions(fga, fta, oreb, tov) ==
    100 * fga + 44 * fta - 100 * oreb + 100 * tov

\* A rating is the exact quotient num / den, den > 0.
Ratio(num, den) == [num |-> num, den |-> den]

\* advanced_stats.calculate_offensive_rating; possessions in hundredths.
\* (pts / possessions) * 100 has the sign of possessions.
calculate_offensive_rating(pts, possessions) ==
    IF possessions = 0 THEN Ratio(0, 1)
    ELSE IF possessions > 0 THEN Ratio(pts * 100 * 100, possessions)
    ELSE Ratio(0 - pts * 100 * 100, 0 - possessions)

\* Box-score figures of the model (small, so that products stay in range).
BoxPts == {0, 10}
BoxFga == {0, 5, 8}
BoxFta == {0, 25}
BoxOreb == {0, 10}
BoxTov == {0, 5, 14}

\* advanced_features.TEAM_LOCATIONS has its own keys (NYK where the other
\* table has NY).
AF_TEAM_LOCATIONS == {"BOS", "LAL", "NYK"}

MetricTeams == {"BOS", "LAL", "NY", "NYK", "NJN"}

\* The Haversine formula of advanced_features.calculate_travel_distance
\* (R = 3959), in tenths of a mile: BOS-LAL 2592.3, LAL-NYK 2447.6,
\* BOS-NYK 188.2.
af_haversine(a, b) ==
    IF a = b THEN 0
    ELSE IF {a, b} = {"BOS", "LAL"} THEN 25923
    ELSE IF {a, b} = {"LAL", "NYK"} THEN 24476
    ELSE 1882

\* advanced_features.calculate_travel_distance
af_calculate_travel_distance(away_team_abbr, home_team_abbr) ==
    IF away_team_abbr \notin AF_TEAM_LOCATIONS
       \/ home_team_abbr \notin AF_TEAM_LOCATIONS
    THEN 0
    ELSE af_haversine(away_team_abbr, home_team_abbr)

\* advanced_features.calculate_travel_fatigue_factor, in tenths of a
\* percentage point, for a distance in tenths of a mile.
calculate_travel_fatigue_factor(distance) ==
    IF distance < 5000 THEN 0 - 5
    ELSE IF distance < 15000 THEN 0 - 20
    ELSE IF distance < 25000 THEN 0 - 50
    ELSE 0 - 70

\* Distances around the thresholds, in tenths of a mile: 499.9, 500.0, ...
ThresholdDistances ==
    {0, 4999, 5000, 5001, 14999, 15000, 15001, 24999, 25000, 25001, 30000}

\* Date strings as advanced_features.parse_game_date sees them: 'FEB 12,
\* 2026' ("abbr"), '2026-02-12' ("iso"), 'FEBRUARY 12, 2026' ("full"), and
\* a string of no date format ("bad").
AfDateStrs ==
    {[fmt |-> f, day |-> d] : f \in {"abbr", "iso", "full"}, d \in 1..MaxRestDay}
    \cup {[fmt |-> "bad", day |-> 1]}

\* advanced_features.parse_game_date raises ValueError when none of its three
\* formats fits.
af_parse_raises(date_str) == date_str.fmt \notin {"abbr", "iso", "full"}

af_parse_game_date(date_str) == date_str.day

\* advanced_features.calculate_rest_differential: -(away_last - home_last)
\* in days, 0 from the except branch; game_date is not read.
calculate_rest_differential(home_last_game, away_last_game, game_date) ==
    IF af_parse_raises(home_last_game) \/ af_parse_raises(away_last_game)
    THEN 0
    ELSE LET home_last == af_parse_game_date(home_last_game)
             away_last == af_parse_game_date(away_last_game)
             date_diff == away_last - home_last
         IN 0 - date_diff

\* --- train_xgboost_model: the feature vector of build_feature_matrix ------
\* fetch_team_game_stats(team, season, max_games=10): the newest ten records,
\* [] for an abbreviation that is no key of NBA_TEAM_IDS.
FetchedGames(data, team) ==
    IF team \notin NBA_TEAM_IDS THEN <<>>
    ELSE SubSeq(data[team], 1, Min(LAST_N_DEFAULT, Len(data[team])))

\* Mutant: no early return for an empty list of games.
get_team_net_rating_NoGuard(games_) ==
    LET stats == calculate_team_average_stats(games_, LAST_N_DEFAULT)
    IN (stats.avg_off_rating - AVG_NBA_RATING * Q)
       + (stats.win_pct - Q \div 2) * WIN_ADJ_SCALE

\* advanced_stats.get_team_net_rating on the fetched games
get_team_net_rating(games_) ==
    IF games_ = <<>> THEN 0
    ELSE LET stats == calculate_team_average_stats(games_, LAST_N_DEFAULT)
             estimated_net_rating == stats.avg_off_rating - AVG_NBA_RATING * Q
             win_adjustment == (stats.win_pct - Q \div 2) * WIN_ADJ_SCALE
         IN estimated_net_rating + win_adjustment

\* train_xgboost_model.extract_features_from_game: the feature dictionary
extract_features_from_game(game, data) ==
    LET home_games == FetchedGames(data, game.home_team)
        away_games == FetchedGames(data, game.away_team)
        home_net_rating == get_team_net_rating(home_games)
        away_net_rating == get_team_net_rating(away_games)
        travel_distance == calculate_travel_distance(game.away_team,
                                                     game.home_team)
        home_stats == calculate_team_average_stats(home_games, LAST_N_DEFAULT)
        away_stats == calculate_team_average_stats(away_games, LAST_N_DEFAULT)
    IN [home_net_rating |-> home_net_rating,
        away_net_rating |-> away_net_rating,
        net_rating_diff |-> home_net_rating - away_net_rating,
        home_advantage |-> 1,
        travel_distance |-> travel_distance,
        travel_category |-> travel_category(travel_distance),
        home_win_pct |-> home_stats.win_pct,
        away_win_pct |-> away_stats.win_pct,
        win_pct_diff |-> home_stats.win_pct - away_stats.win_pct,
        home_off_rating |-> home_stats.avg_off_rating,
        away_off_rating |-> away_stats.avg_off_rating,
        off_rating_diff |-> home_stats.avg_off_rating
                            - away_stats.avg_off_rating]

\* The feature_vector list of build_feature_matrix
feature_vector(features) ==
    << features.home_net_rating,
       features.away_net_rating,
       features.net_rating_diff,
       features.home_advantage,
       features.travel_distance,
       features.travel_category,
       features.home_win_pct,
       features.away_win_pct,
       features.win_pct_diff,
       features.home_off_rating,
       features.away_off_rating,
       features.off_rating_diff >>

\* Games handed to build_feature_matrix.
FeatureGames ==
    {Game(m[1], m[2], w, AbbrDate(1)) :
       m \in {<<"BOS", "LAL">>, <<"LAL", "BOS">>, <<"NY", "BOS">>,
              <<"BOS", "NJN">>, <<"NJN", "LAL">>},
       w \in BOOLEAN}

\* build_feature_matrix(games): X, y and game_info; no step of
\* extract_features_from_game raises on a game dictionary, so every game
\* has its row.
build_feature_matrix(games_, data) ==
    [X |-> [k \in 1..Len(games_) |->
              feature_vector(extract_features_from_game(games_[k], data))],
     y |-> [k \in 1..Len(games_) |-> Label(games_[k])],
     game_info |-> games_]

\* --- the game-fetch functions ---------------------------------------------
\* The keys of NBA_TEAM_IDS (the same thirty in backtest_full_model and in
\* backtest_2023_24_season) and of predict_vegas_with_injuries.TEAM_LOCATIONS.
AllTeamIds ==
    {"ATL", "BOS", "BKN", "CHA", "CHI", "CLE", "DAL", "DEN", "DET", "GS",
     "HOU", "IND", "LAC", "LAL", "MEM", "MIA", "MIL", "MIN", "NO", "NY",
     "OKC", "ORL", "PHI", "PHX", "POR", "SAC", "SA", "TOR", "UTAH", "WSH"}

AllTeamLocations ==
    {"LAL", "LAC", "GS", "SAC", "PHX", "BOS", "NY", "BKN", "PHI", "TOR",
     "MIA", "ORL", "ATL", "CHA", "WSH", "CHI", "MIL", "CLE", "DET", "IND",
     "DAL", "HOU", "SA", "MEM", "NO", "DEN", "UTAH", "MIN", "OKC", "POR"}

\* The abbreviations the provider writes in the MATCHUP field.
OfficialAbbrevs ==
    {"ATL", "BOS", "BKN", "CHA", "CHI", "CLE", "DAL", "DEN", "DET", "GSW",
     "HOU", "IND", "LAC", "LAL", "MEM", "MIA", "MIL", "MIN", "NOP", "NYK",
     "OKC", "ORL", "PHI", "PHX", "POR", "SAC", "SAS", "TOR", "UTA", "WAS"}

\* Mutant: no normalisation, as in backtest_2023_24_season.
ABBREV_ALIASES_Identity(opponent) == opponent

\* ABBREV_ALIASES.get(opponent, opponent)
ABBREV_ALIASES(opponent) ==
    CASE opponent = "GSW" -> "GS"
      [] opponent = "NOP" -> "NO"
      [] opponent = "NYK" -> "NY"
      [] opponent = "SAS" -> "SA"
      [] opponent = "UTA" -> "UTAH"
      [] opponent = "WAS" -> "WSH"
      [] OTHER -> opponent

\* The provider's abbreviation of the team a key of NBA_TEAM_IDS names.
ProviderAbbrev(team) ==
    CASE team = "GS" -> "GSW"
      [] team = "NO" -> "NOP"
      [] team = "NY" -> "NYK"
      [] team = "SA" -> "SAS"
      [] team = "UTAH" -> "UTA"
      [] team = "WSH" -> "WAS"
      [] OTHER -> team

\* The teams fetched, in the order of the code: the model's teams among
\* list(NBA_TEAM_IDS.keys()) and the head of the test_teams list.
HistoricalTeams == << "BOS", "GS", "LAL", "NY" >>
SeasonTestTeams == << "LAL", "BOS", "GS" >>

\* A game as it was played, teams in the provider's abbreviations.
RealGames ==
    {[home |-> m[1], away |-> m[2], date |-> AbbrDate(d), home_won |-> d = 1] :
       m \in {<<"GSW", "LAL">>, <<"LAL", "GSW">>, <<"BOS", "GSW">>,
              <<"LAL", "BOS">>, <<"NYK", "LAL">>, <<"BOS", "NYK">>},
       d \in 1..2}

\* The games of a season, no game twice.
Schedules ==
    {sched \in SeqsUpTo(RealGames, MaxSchedule) :
       \A m, n \in 1..Len(sched) : m # n => sched[m] # sched[n]}

\* The row of a team's game log for one of its games: MATCHUP is
\* 'LAL vs. BOS' at home and 'LAL @ GSW' away, WL the team's own result.
LogRow(team, g) ==
    LET me == ProviderAbbrev(team) IN
    IF g.home = me
    THEN [MATCHUP |-> [team |-> me, sep |-> " vs. ", opponent |-> g.away],
          WL |-> IF g.home_won THEN "W" ELSE "L",
          GAME_DATE |-> g.date]
    ELSE [MATCHUP |-> [team |-> me, sep |-> " @ ", opponent |-> g.home],
          WL |-> IF g.home_won THEN "L" ELSE "W",
          GAME_DATE |-> g.date]

\* The rows the provider returns for a team; none when the request fails.
TeamGameLog(team, schedule, failed) ==
    IF team \in failed THEN <<>>
    ELSE LET mine == SelectSeq(schedule,
                       LAMBDA g : ProviderAbbrev(team) \in {g.home, g.away})
         IN [k \in 1..Len(mine) |-> LogRow(team, mine[k])]

\* matchup_key = f"{home_team}_{away_team}_{game_date}"
matchup_key(game) == << game.home_team, game.away_team, game.game_date >>

\* The "if matchup_key not in seen_matchups" loop over one team's games.
RECURSIVE AddUnique(_, _)
AddUnique(acc, new_games) ==
    IF new_games = <<>> THEN acc
    ELSE LET game == Head(new_games)
             key == matchup_key(game)
         IN AddUnique(IF key \notin acc.seen_matchups
                      THEN [all_games |-> Append(acc.all_games, game),
                            seen_matchups |-> acc.seen_matchups \cup {key}]
                      ELSE acc,
                      Tail(new_games))

\* backtest_2023_24_season.fetch_team_season_games: one game per row, the
\* opponent as the provider wrote it.
fetch_team_season_games(team_abbr, schedule, failed) ==
    LET rows == TeamGameLog(team_abbr, schedule, failed) IN
    [k \in 1..Len(rows) |->
       LET matchup == rows[k].MATCHUP
           wl == rows[k].WL
           is_home == matchup.sep = " vs. "
           opponent == matchup.opponent
       IN [home_team |-> IF is_home THEN team_abbr ELSE opponent,
           away_team |-> IF is_home THEN opponent ELSE team_abbr,
           home_won |-> IF is_home THEN wl = "W" ELSE wl = "L",
           matchup |-> matchup,
           game_date |-> rows[k].GAME_DATE,
           our_team |-> team_abbr,
           is_home |-> is_home]]

\* The row loop of backtest_full_model.fetch_historical_games: the opponent
\* goes through ABBREV_ALIASES.
historical_team_games(team, schedule, failed) ==
    LET rows == TeamGameLog(team, schedule, failed) IN
    [k \in 1..Len(rows) |->
       LET matchup == rows[k].MATCHUP
           wl == rows[k].WL
           is_home == matchup.sep = " vs. "
           opponent == ABBREV_ALIASES(matchup.opponent)
       IN [home_team |-> IF is_home THEN team ELSE opponent,
           away_team |-> IF is_home THEN opponent ELSE team,
           home_won |-> IF is_home THEN wl = "W" ELSE wl = "L",
           game_date |-> rows[k].GAME_DATE,
           matchup |-> matchup]]

RECURSIVE SeasonFetchLoop(_, _, _, _)
SeasonFetchLoop(acc, test_teams, schedule, failed) ==
    IF test_teams = <<>> THEN acc
    ELSE SeasonFetchLoop(
           AddUnique(acc, fetch_team_season_games(Head(test_teams), schedule,
                                                  failed)),
           Tail(test_teams), schedule, failed)

\* backtest_2023_24_season.fetch_full_season_games
fetch_full_season_games(schedule, max_teams, failed) ==
    LET test_teams == SubSeq(SeasonTestTeams, 1, max_teams)
    IN SeasonFetchLoop([all_games |-> <<>>, seen_matchups |-> {}],
                       test_teams, schedule, failed).all_games

RECURSIVE HistoricalFetchLoop(_, _, _, _)
HistoricalFetchLoop(acc, test_teams, schedule, failed) ==
    IF test_teams = <<>> THEN acc
    ELSE HistoricalFetchLoop(
           AddUnique(acc, historical_team_games(Head(test_teams), schedule,
                                                failed)),
           Tail(test_teams), schedule, failed)

\* backtest_full_model.fetch_historical_games
fetch_historical_games(schedule, num_teams, failed) ==
    LET test_teams == SubSeq(HistoricalTeams, 1, num_teams)
    IN HistoricalFetchLoop([all_games |-> <<>>, seen_matchups |-> {}],
                           test_teams, schedule, failed).all_games

\* --- backtest_accuracy ----------------------------------------------------
\* A record of get_historical_games: the fetched team's side and result,
\* and the opponent's points, None when the provider's row has no OPP_PTS.
AccuracyRecs ==
    {[is_home |-> h, won |-> w, pts |-> 100, opp_pts |-> o] :
       h \in BOOLEAN, w \in BOOLEAN, o \in {None, 90}}

\* Mutant: the fetched team's result in every branch.
simple_predict_winner_Won(game) == game.won

\* backtest_accuracy.simple_predict_winner
simple_predict_winner(game) ==
    IF game.is_home
    THEN IF game.opp_pts = None THEN TRUE ELSE game.won
    ELSE game.won

\* The result record of one test game.
accuracy_result(game) ==
    LET predicted_home_wins == simple_predict_winner(game)
        actual_home_won == IF game.is_home THEN game.won ELSE ~game.won
    IN [predicted |-> predicted_home_wins,
        actual |-> actual_home_won,
        correct |-> (predicted_home_wins = actual_home_won)]

\* backtest_accuracy.backtest_model, train_split in tenths; the accuracy is
\* held times Q.
backtest_model(games_, train_split) ==
    IF Len(games_) = 0 THEN [accuracy |-> 0, correct |-> 0, total |-> 0,
                             results |-> <<>>, returned |-> << 0 >>]
    ELSE LET acc_split_idx == (Len(games_) * train_split) \div 10
             acc_test_games == SubSeq(games_, acc_split_idx + 1, Len(games_))
             results == [k \in 1..Len(acc_test_games) |->
                           accuracy_result(acc_test_games[k])]
             correct == Cardinality({k \in 1..Len(results) :
                                       results[k].correct})
             total == Len(acc_test_games)
             accuracy == IF total > 0 THEN (correct * 100 * Q) \div total
                         ELSE 0
         IN [accuracy |-> accuracy, correct |-> correct, total |-> total,
             results |-> results,
             returned |-> << accuracy, correct, total >>]

\* --- the calls ------------------------------------------------------------
InitMetrics ==
    /\ MainIdle /\ StatsIdle /\ SeasonIdle /\ RequestIdle
    /\ mt_pc = "ready" /\ mt_call = [op |-> "none"] /\ mt_out = None

\* fetch_team_game_stats, one row: possessions, then the offensive rating
CallOffensiveRating ==
    /\ mt_pc = "ready"
    /\ \E pts \in BoxPts, fga \in BoxFga, fta \in BoxFta, oreb \in BoxOreb,
          tov \in BoxTov :
         LET possessions == calculate_possessions(fga, fta, oreb, tov) IN
         /\ mt_call' = [op |-> "calculate_offensive_rating", pts |-> pts,
                        possessions |-> possessions]
         /\ mt_out' = calculate_offensive_rating(pts, possessions)
    /\ mt_pc' = "returned"
    /\ UNCHANGED notMetrics

\* calculate_possessions on one box score
CallPossessions ==
    /\ mt_pc = "ready"
    /\ \E fga \in BoxFga, fta \in BoxFta, oreb \in BoxOreb, tov \in BoxTov :
         /\ mt_call' = [op |-> "calculate_possessions", fga |-> fga,
                        fta |-> fta, oreb |-> oreb, tov |-> tov]
         /\ mt_out' = calculate_possessions(fga, fta, oreb, tov)
    /\ mt_pc' = "returned"
    /\ UNCHANGED notMetrics

\* Game records whose offensive rating and result vary independently.
RatingRecs ==
    {LogRec(AbbrDate(1), w, p) : w \in BOOLEAN, p \in {100, 120}}

\* The two net-rating paths on one list of a team's selected games:
\* compute_net_rating on the averages extract_features takes of it, and
\* get_team_net_rating on the list as fetched.
CallNetRating ==
    /\ mt_pc = "ready"
    /\ \E games_ \in SeqsUpTo(RatingRecs, MaxRatingGames) :
         /\ mt_call' = [op |-> "net_rating", games |-> games_]
         /\ mt_out' =
              [compute_net_rating |->
                 compute_net_rating(
                    calculate_team_average_stats(games_, LAST_N_DEFAULT)),
               get_team_net_rating |-> get_team_net_rating(games_)]
    /\ mt_pc' = "returned"
    /\ UNCHANGED notMetrics

\* The requests that fail: none, or those of one team.
FailedSets == {{}} \cup {{t} : t \in {"BOS", "GS"}}

CallFetchFullSeasonGames ==
    /\ mt_pc = "ready"
    /\ \E schedule \in Schedules, max_teams \in 1..Len(SeasonTestTeams),
          failed \in FailedSets :
         /\ mt_call' = [op |-> "fetch_full_season_games",
                        schedule |-> schedule,
                        test_teams |-> SubSeq(SeasonTestTeams, 1, max_teams),
                        failed |-> failed]
         /\ mt_out' = fetch_full_season_games(schedule, max_teams, failed)
    /\ mt_pc' = "returned"
    /\ UNCHANGED notMetrics

CallFetchHistoricalGames ==
    /\ mt_pc = "ready"
    /\ \E schedule \in Schedules, num_teams \in 1..Len(HistoricalTeams),
          failed \in FailedSets :
         /\ mt_call' = [op |-> "fetch_historical_games",
                        schedule |-> schedule,
                        test_teams |-> SubSeq(HistoricalTeams, 1, num_teams),
                        failed |-> failed]
         /\ mt_out' = fetch_historical_games(schedule, num_teams, failed)
    /\ mt_pc' = "returned"
    /\ UNCHANGED notMetrics

\* backtest_model(games, train_split), train_split 0.0, 0.5 or 0.8
CallBacktestModel ==
    /\ mt_pc = "ready"
    /\ \E games_ \in SeqsUpTo(AccuracyRecs, MaxAccuracyGames),
          train_split \in {0, 5, 8} :
         /\ mt_call' = [op |-> "backtest_model", games |-> games_,
                        train_split |-> train_split]
         /\ mt_out' = backtest_model(games_, train_split)
    /\ mt_pc' = "returned"
    /\ UNCHANGED notMetrics

\* The travel category extract_features gives a distance
CallTravelCategory ==
    /\ mt_pc = "ready"
    /\ \E distance \in ThresholdDistances :
         /\ mt_call' = [op |-> "travel_category", distance |-> distance]
         /\ mt_out' = travel_category(distance)
    /\ mt_pc' = "returned"
    /\ UNCHANGED notMetrics

CallTravelFatigueFactor ==
    /\ mt_pc = "ready"
    /\ \E distance \in ThresholdDistances :
         /\ mt_call' = [op |-> "calculate_travel_fatigue_factor",
                        distance |-> distance]
         /\ mt_out' = calculate_travel_fatigue_factor(distance)
    /\ mt_pc' = "returned"
    /\ UNCHANGED notMetrics

\* The if-chain of calculate_travel_fatigue on a distance
CallFatigueForDistance ==
    /\ mt_pc = "ready"
    /\ \E distance \in ThresholdDistances :
         /\ mt_call' = [op |-> "fatigue_for_distance", distance |-> distance]
         /\ mt_out' = fatigue_for_distance(distance)
    /\ mt_pc' = "returned"
    /\ UNCHANGED notMetrics

CallTravelFatigue ==
    /\ mt_pc = "ready"
    /\ \E away_team \in MetricTeams, home_team \in MetricTeams :
         /\ mt_call' = [op |-> "calculate_travel_fatigue",
                        away_team |-> away_team, home_team |-> home_team]
         /\ mt_out' = calculate_travel_fatigue(away_team, home_team)
    /\ mt_pc' = "returned"
    /\ UNCHANGED notMetrics

\* calculate_travel_distance of backtest_full_model
CallTravelDistance ==
    /\ mt_pc = "ready"
    /\ \E away_team \in MetricTeams, home_team \in MetricTeams :
         /\ mt_call' = [op |-> "calculate_travel_distance",
                        away_team |-> away_team, home_team |-> home_team]
         /\ mt_out' = calculate_travel_distance(away_team, home_team)
    /\ mt_pc' = "returned"
    /\ UNCHANGED notMetrics

\* calculate_travel_distance of advanced_features
CallAfTravelDistance ==
    /\ mt_pc = "ready"
    /\ \E away_team \in MetricTeams, home_team \in MetricTeams :
         /\ mt_call' = [op |-> "af_calculate_travel_distance",
                        away_team |-> away_team, home_team |-> home_team]
         /\ mt_out' = af_calculate_travel_distance(away_team, home_team)
    /\ mt_pc' = "returned"
    /\ UNCHANGED notMetrics

CallRestDifferential ==
    /\ mt_pc = "ready"
    /\ \E home_last_game \in AfDateStrs, away_last_game \in AfDateStrs,
          game_date \in AfDateStrs :
         /\ mt_call' = [op |-> "calculate_rest_differential",
                        home_last_game |-> home_last_game,
                        away_last_game |-> away_last_game,
                        game_date |-> game_date]
         /\ mt_out' = calculate_rest_differential(home_last_game,
                                                  away_last_game, game_date)
    /\ mt_pc' = "returned"
    /\ UNCHANGED notMetrics

CallBuildFeatureMatrix ==
    /\ mt_pc = "ready"
    /\ \E games_ \in SeqsUpTo(FeatureGames, MaxFeatureGames),
          data \in {StdData, EmptyData} :
         /\ mt_call' = [op |-> "build_feature_matrix", games |-> games_,
                        data |-> data]
         /\ mt_out' = build_feature_matrix(games_, data)
    /\ mt_pc' = "returned"
    /\ UNCHANGED notMetrics

NextMetrics ==
    \/ CallOffensiveRating
    \/ CallPossessions
    \/ CallNetRating
    \/ CallFetchFullSeasonGames
    \/ CallFetchHistoricalGames
    \/ CallBacktestModel
    \/ CallTravelCategory
    \/ CallTravelFatigueFactor
    \/ CallFatigueForDistance
    \/ CallTravelFatigue
    \/ CallTravelDistance
    \/ CallAfTravelDistance
    \/ CallRestDifferential
    \/ CallBuildFeatureMatrix

SpecMetrics == InitMetrics /\ [][NextMetrics]_vars

\* Feature extraction at training time and at inference time:
\* run_full_backtest and the metric calculators.
SpecFeatures == (Init \/ InitMetrics) /\ [][Next \/ NextMetrics]_vars

\* ------------------------------------------------------------------------
\* nba_stats_api.NBAStatsAPI._make_request
\* ------------------------------------------------------------------------
\* for attempt in range(3)
ATTEMPTS == 3

\* What one requests.get can give: a response with a status code, and for
\* status 200 a body that response.json() parses (known by a number) or one
\* on which it raises; or an exception (timeout, connection error).
Bodies == {1, 2}
NoBody == 0
Responses ==
    {[raised |-> FALSE, status_code |-> 200, body |-> b] :
       b \in Bodies \cup {NoBody}}
    \cup {[raised |-> FALSE, status_code |-> c, body |-> NoBody] :
            c \in {429, 404, 500}}
Raised == [raised |-> TRUE, status_code |-> 0, body |-> NoBody]

\* 2 ** attempt
Pow2(n) == IF n = 0 THEN 1 ELSE IF n = 1 THEN 2 ELSE IF n = 2 THEN 4 ELSE 8

InitRequest ==
    /\ MainIdle /\ StatsIdle /\ SeasonIdle /\ MetricsIdle
    /\ rq_pc = "loop" /\ attempt = 0 /\ rq_log = <<>> /\ rq_slept = 0
    /\ rq_ret = None

\* status 200 and response.json() returns: return response.json()
RequestOk ==
    /\ rq_pc = "loop" /\ attempt < ATTEMPTS
    /\ \E response \in Responses :
         /\ response.status_code = 200 /\ response.body # NoBody
         /\ rq_log' = Append(rq_log, response)
         /\ rq_ret' = response.body
    /\ rq_pc' = "returned"
    /\ UNCHANGED << attempt, rq_slept >>
    /\ UNCHANGED notRequest

\* status 429: sleep 2 ** attempt seconds, next attempt
RequestRateLimited ==
    /\ rq_pc = "loop" /\ attempt < ATTEMPTS
    /\ \E response \in Responses :
         /\ response.status_code = 429
         /\ rq_log' = Append(rq_log, response)
    /\ rq_slept' = rq_slept + Pow2(attempt)
    /\ attempt' = attempt + 1
    /\ UNCHANGED << rq_pc, rq_ret >>
    /\ UNCHANGED notRequest

\* Mutant: any other status is retried like an exception.
RequestOtherStatus_Retries ==
    /\ rq_pc = "loop" /\ attempt < ATTEMPTS
    /\ \E response \in Responses :
         /\ response.status_code \notin {200, 429}
         /\ rq_log' = Append(rq_log, response)
    /\ rq_slept' = rq_slept + 1
    /\ attempt' = attempt + 1
    /\ UNCHANGED << rq_pc, rq_ret >>
    /\ UNCHANGED notRequest

\* any other status: return None
RequestOtherStatus ==
    /\ rq_pc = "loop" /\ attempt < ATTEMPTS
    /\ \E response \in Responses :
         /\ response.status_code \notin {200, 429}
         /\ rq_log' = Append(rq_log, response)
    /\ rq_ret' = None
    /\ rq_pc' = "returned"
    /\ UNCHANGED << attempt, rq_slept >>
    /\ UNCHANGED notRequest

\* requests.get raises: the except branch sleeps one second, next attempt
RequestRaises ==
    /\ rq_pc = "loop" /\ attempt < ATTEMPTS
    /\ rq_log' = Append(rq_log, Raised)
    /\ rq_slept' = rq_slept + 1
    /\ attempt' = attempt + 1
    /\ UNCHANGED << rq_pc, rq_ret >>
    /\ UNCHANGED notRequest

\* status 200 and response.json() raises inside the try: the same except
\* branch
RequestJsonRaises ==
    /\ rq_pc = "loop" /\ attempt < ATTEMPTS
    /\ \E response \in Responses :
         /\ response.status_code = 200 /\ response.body = NoBody
         /\ rq_log' = Append(rq_log, response)
    /\ rq_slept' = rq_slept + 1
    /\ attempt' = attempt + 1
    /\ UNCHANGED << rq_pc, rq_ret >>
    /\ UNCHANGED notRequest

\* the loop has run out: return None
RequestExhausted ==
    /\ rq_pc = "loop" /\ attempt = ATTEMPTS
    /\ rq_ret' = None
    /\ rq_pc' = "returned"
    /\ UNCHANGED << attempt, rq_log, rq_slept >>
    /\ UNCHANGED notRequest

NextRequest ==
    \/ RequestOk
    \/ RequestRateLimited
    \/ RequestOtherStatus
    \/ RequestRaises
    \/ RequestJsonRaises
    \/ RequestExhausted

\* requests.get has a timeout and time.sleep ends, so a step that can be
\* taken is taken.
SpecRequest == InitRequest /\ [][NextRequest]_vars /\ WF_vars(NextRequest)

\* ------------------------------------------------------------------------
\* Properties
\* ------------------------------------------------------------------------
Range(s) == {s[k] : k \in 1..Len(s)}

SeqBag(s) == [x \in Range(s) |-> Cardinality({k \in 1..Len(s) : s[k] = x})]

StrictlyBefore(rec, game) ==
    /\ rec.game_date.fmt = "abbr"
    /\ game.game_date.fmt = "abbr"
    /\ rec.game_date.day < game.game_date.day

\* C1: no-lookahead.  Every record averaged into the home or the away stat
\* summary of a matchup (by extract_features, or by get_stats_before_date
\* alone) has a date that parses and is strictly earlier than the matchup's
\* date, whatever the order of the log; the summary in the feature vector is
\* the average of exactly those records.
C1_NoLookahead ==
    /\ (st_pc = "done" /\ st_out.op = "extract_features") =>
          /\ \A r \in Range(st_out.home_recent) \cup Range(st_out.away_recent) :
                StrictlyBefore(r, st_game)
          /\ st_out.features[7] =
                calculate_team_average_stats(st_out.home_recent,
                                             LAST_N_DEFAULT).win_pct
          /\ st_out.features[8] =
                calculate_team_average_stats(st_out.away_recent,
                                             LAST_N_DEFAULT).win_pct
          /\ st_out.features[10] =
                calculate_team_average_stats(st_out.home_recent,
                                             LAST_N_DEFAULT).avg_off_rating
          /\ st_out.features[11] =
                calculate_team_average_stats(st_out.away_recent,
                                             LAST_N_DEFAULT).avg_off_rating
    /\ (st_pc = "done" /\ st_out.op = "get_stats_before_date") =>
          \A r \in Range(st_out.recent) : StrictlyBefore(r, st_game)

\* A log in which a record dated on the matchup's day or later sits before an
\* earlier one, and the earlier one was averaged.
C1_Witness ==
    /\ st_pc = "done" /\ st_out.op = "extract_features"
    /\ ~st_built
    /\ st_out.home_recent # <<>>
    /\ \E j, k \in 1..Len(st_logs[st_game.home_team]) :
          /\ j < k
          /\ ~StrictlyBefore(st_logs[st_game.home_team][j], st_game)
          /\ st_logs[st_game.home_team][j].game_date.fmt = "abbr"
          /\ StrictlyBefore(st_logs[st_game.home_team][k], st_game)

\* Indices of the records of log dated before the game.
PriorIdx(log, game) == {k \in 1..Len(log) : StrictlyBefore(log[k], game)}

\* C5: on a log produced by build_team_game_logs, the records averaged by
\* get_stats_before_date are min(N, k) of the k records dated before the
\* matchup, none of them earlier than a prior record left out; the averages
\* are over exactly those records (win rate = wins / min(N, k)), and with no
\* prior record the neutral defaults are returned.
C5_LatestNPrior ==
    (st_pc = "done" /\ st_built /\ st_out.op = "get_stats_before_date") =>
       LET log == st_logs["BOS"]
           prior == PriorIdx(log, st_game)
           k == Cardinality(prior)
           recent == st_out.recent
           n == Len(recent)
       IN /\ n = Min(st_last_n, k)
          /\ \E S \in SUBSET prior :
                /\ Cardinality(S) = n
                /\ \A x \in Range(recent) :
                      SeqBag(recent)[x] = Cardinality({j \in S : log[j] = x})
                /\ \A j \in prior \ S : \A m \in S :
                      log[j].game_date.day <= log[m].game_date.day
          /\ IF k = 0 THEN st_out.stats = NeutralStats
             ELSE /\ st_out.stats.num_games = n
                  /\ st_out.stats.win_pct * n =
                        Q * Cardinality({j \in 1..n : recent[j].won})
                  /\ st_out.stats.avg_off_rating * n =
                        Q * SumSeq([j \in 1..n |-> recent[j].off_rating])

\* More prior records than N, of different days, so that the slice cuts.
C5_Witness ==
    /\ st_pc = "done" /\ st_built /\ st_out.op = "get_stats_before_date"
    /\ Cardinality(PriorIdx(st_logs["BOS"], st_game)) > st_last_n
    /\ \E j, k \in PriorIdx(st_logs["BOS"], st_game) :
          st_logs["BOS"][j].game_date.day < st_logs["BOS"][k].game_date.day

\* --- run_full_backtest ---------------------------------------------------
Split == pc \in {"build_logs", "train_loop", "test_loop", "fit", "predict",
                 "evaluate", "done", "raised"}

LogsBuilt == pc \in {"train_loop", "test_loop", "fit", "predict", "evaluate",
                     "done", "raised"}

Extracted == pc \in {"fit", "predict", "evaluate", "done", "raised"}

Parses(game) == game.game_date.fmt = "abbr"

\* The games of each partition the extraction loops have gone through.
TrainSeen ==
    IF pc = "train_loop" THEN SubSeq(train_games, 1, i) ELSE train_games

TestSeen ==
    IF pc = "train_loop" THEN <<>>
    ELSE IF pc = "test_loop" THEN SubSeq(test_games, 1, i)
    ELSE test_games

Unsorted(s) == \E j, k \in 1..Len(s) : j < k /\ DateKey(s[j]) > DateKey(s[k])

\* C3: the split index is floor(0.75 n); train is the first floor(0.75 n)
\* games of the date-sorted list and test the rest, so that the two are
\* disjoint parts that together hold every input game exactly once; 100 games
\* split 75 / 25.
C3_ChronologicalSplit ==
    /\ split_idx(100) = 75 /\ 100 - split_idx(100) = 25
    /\ Split =>
         LET n == Len(games)
             k == Len(train_games)
         IN /\ 4 * k <= 3 * n /\ 3 * n < 4 * (k + 1)
            /\ Len(games_sorted) = n
            /\ SeqBag(games_sorted) = SeqBag(games)
            /\ \A j \in 1..(n - 1) :
                  DateKey(games_sorted[j]) <= DateKey(games_sorted[j + 1])
            /\ train_games = SubSeq(games_sorted, 1, k)
            /\ test_games = SubSeq(games_sorted, k + 1, n)
            /\ train_games \o test_games = games_sorted
            /\ SeqBag(train_games \o test_games) = SeqBag(games)

C3_Witness ==
    /\ pc = "build_logs" /\ Len(games) = MaxSplitGames
    /\ Unsorted(games)
    /\ Len(train_games) = split_idx(MaxSplitGames)
    /\ Len(test_games) > 1

\* C4: whatever the order of the list passed in, no game of train is dated
\* after a game of test (a date that does not parse counts as datetime.min,
\* the key the sort gives it).
C4_TrainNotAfterTest ==
    Split =>
       \A a \in Range(train_games) : \A b \in Range(test_games) :
          DateKey(a) <= DateKey(b)

C4_Witness ==
    /\ Split /\ Unsorted(games)
    /\ train_games # <<>> /\ test_games # <<>>
    /\ \E a \in Range(train_games) : \E b \in Range(test_games) :
          DateKey(a) < DateKey(b)

\* Whether team has a record dated before game in its built log.
HasPrior(team, game) == PriorIdx(LogOf(team_logs, team), game) # {}

HasLog(team) == LogOf(team_logs, team) # <<>>

KeptTrain == SelectSeq(TrainSeen, Parses)

KeptTest == SelectSeq(TestSeen, Parses)

NeutralHome(row) ==
    row[7] = Q \div 2 /\ row[10] = 100 * Q /\ row[1] = 0 - 12 * Q

NeutralAway(row) ==
    row[8] = Q \div 2 /\ row[11] = 100 * Q /\ row[2] = 0 - 12 * Q

SkippedCount == Len(games) - Len(X_train) - Len(X_test)

C8_LabelIffAboveHalf ==
    pc \in {"evaluate", "done"} =>
       /\ Len(y_pred) = Len(y_pred_proba) /\ Len(y_pred) = Len(y_test)
       /\ \A k \in 1..Len(y_pred) :
             /\ y_pred[k] \in {0, 1}
             /\ y_pred[k] = 1 <=> y_pred_proba[k] > 500
             /\ y_pred_proba[k] = 500 => y_pred[k] = 0
       /\ pc = "done" => result.y_pred = y_pred

C8_Witness ==
    /\ pc = "done"
    /\ \E j, k \in 1..Len(y_pred) :
          /\ y_pred_proba[j] = 500 /\ y_pred[j] = 0
          /\ y_pred_proba[k] = 501 /\ y_pred[k] = 1

FarFromHalf(d) == {k \in 1..Len(y_pred_proba) : Abs(y_pred_proba[k] - 500) > d}

\* Results of run_backtest more than d thousandths from 0.5.
SeasonFarFromHalf(d) ==
    {k \in 1..Len(se_ret.results) : Abs(se_ret.results[k].prob - 500) > d}

\* C10 as claimed: wherever the two high-confidence counts are computed
\* (run_full_backtest, and display_results of the 2023-24 season backtest)
\* they cover exactly the predictions with |p - 0.5| > 0.15.
C10_HighConfAbove15 ==
    /\ pc = "done" =>
         /\ result.high_conf_total = Cardinality(FarFromHalf(150))
         /\ result.high_conf_correct =
               Cardinality({k \in FarFromHalf(150) : y_pred[k] = y_test[k]})
    /\ se_pc = "displayed" =>
         /\ se_hc.high_conf_total = Cardinality(SeasonFarFromHalf(150))
         /\ se_hc.high_conf_correct =
               Cardinality({k \in SeasonFarFromHalf(150) :
                              se_ret.results[k].correct})

\* C10 as amended: in run_full_backtest the high-confidence counts cover
\* exactly the test predictions with |p - 0.5| > 0.15 (0.65 and 0.35 are not
\* high-confidence); in display_results of the 2023-24 season backtest the
\* threshold is 0.1 instead.  In both, high_conf_correct <= high_conf_total
\* <= total and high_conf_correct <= correct.
C10_HighConfCounts ==
    /\ pc = "done" =>
         /\ result.high_conf_total = Cardinality(FarFromHalf(150))
         /\ result.high_conf_correct =
               Cardinality({k \in FarFromHalf(150) : y_pred[k] = y_test[k]})
         /\ \A k \in 1..Len(y_pred_proba) :
               y_pred_proba[k] \in {350, 650} => k \notin FarFromHalf(150)
         /\ result.high_conf_correct <= result.high_conf_total
         /\ result.high_conf_total <= result.total
         /\ result.high_conf_correct <= result.correct
    /\ se_pc = "displayed" =>
         /\ se_hc.high_conf_total = Cardinality(SeasonFarFromHalf(100))
         /\ se_hc.high_conf_correct =
               Cardinality({k \in SeasonFarFromHalf(100) :
                              se_ret.results[k].correct})
         /\ se_hc.high_conf_correct <= se_hc.high_conf_total
         /\ se_hc.high_conf_total <= se_ret.total
         /\ se_hc.high_conf_correct <= se_ret.correct

\* A run whose two test predictions are 0.65, not counted, and 0.9, counted.
C10_Witness ==
    /\ pc = "done" /\ result.total = 2
    /\ y_pred_proba[1] = 650 /\ y_pred_proba[2] = 900
    /\ result.high_conf_total = 1

AllTeams ==
    {games[k].home_team : k \in 1..Len(games)}
    \cup {games[k].away_team : k \in 1..Len(games)}

\* C13: build_team_game_logs returns a log for every team of the games; the
\* log of a team is in non-decreasing order of date (of the sort key: the
\* parsed date, datetime.min for a date that does not parse) whatever the
\* order in which the fetched records arrive, records of equal date keep
\* their order of arrival, and the log holds exactly the fetched records,
\* each as often as fetched and unaltered.
C13_LogsSortedByDate ==
    LogsBuilt =>
       /\ DOMAIN team_logs = AllTeams
       /\ \A t \in AllTeams :
             LET log == team_logs[t] IN
             /\ \A k \in 1..(Len(log) - 1) : DateKey(log[k]) <= DateKey(log[k + 1])
             /\ \A j, k \in 1..Len(log) :
                   /\ j < k
                   /\ parse_game_date(log[j].game_date) # None
                   /\ parse_game_date(log[k].game_date) # None
                   => parse_game_date(log[j].game_date)
                        <= parse_game_date(log[k].game_date)
             /\ t \in NBA_TEAM_IDS =>
                   /\ Len(log) = Len(game_data[t])
                   /\ SeqBag(log) = SeqBag(game_data[t])
                   /\ \A d \in {DateKey(log[k]) : k \in 1..Len(log)} :
                         SelectSeq(log, LAMBDA g : DateKey(g) = d)
                           = SelectSeq(game_data[t], LAMBDA g : DateKey(g) = d)
             /\ t \notin NBA_TEAM_IDS => log = <<>>

\* A fetched list that is neither oldest first nor newest first, with a date
\* that does not parse, has been put in order.
C13_Witness ==
    /\ LogsBuilt /\ "BOS" \in AllTeams
    /\ Len(game_data["BOS"]) = MaxLog
    /\ Unsorted(game_data["BOS"])
    /\ \E k \in 1..MaxLog : parse_game_date(game_data["BOS"][k].game_date) = None
    /\ team_logs["BOS"] # game_data["BOS"]

\* --- the metric calculators -----------------------------------------------
Returned(op) == mt_pc = "returned" /\ mt_call.op = op

\* C14 as claimed: calculate_offensive_rating returns exactly 0 whenever
\* possessions is zero or negative, and points / possessions * 100 otherwise.
C14_ZeroForNonPositive ==
    Returned("calculate_offensive_rating") =>
       IF mt_call.possessions <= 0 THEN mt_out.num = 0
       ELSE mt_out.num * mt_call.possessions
              = mt_call.pts * 100 * 100 * mt_out.den

\* C15: the travel bucket is 0 below 500 miles, 1 from 500 to below 1500, 2
\* from 1500 to below 2500 and 3 from 2500 on; calculate_travel_fatigue_factor
\* and calculate_travel_fatigue step at the same distances and give -0.5,
\* -2.0, -5.0 and -7.0 percentage points for the four buckets (the latter as
\* a fraction of 1: -0.005, -0.020, -0.050, -0.070).
C15_TravelSteps ==
    /\ Returned("travel_category") =>
         LET d == mt_call.distance IN
         /\ mt_out \in 0..3
         /\ mt_out = 0 <=> d < 5000
         /\ mt_out = 1 <=> 5000 <= d /\ d < 15000
         /\ mt_out = 2 <=> 15000 <= d /\ d < 25000
         /\ mt_out = 3 <=> 25000 <= d
    /\ Returned("calculate_travel_fatigue_factor")
       \/ Returned("fatigue_for_distance") =>
         LET d == mt_call.distance IN
         /\ mt_out \in {0 - 5, 0 - 20, 0 - 50, 0 - 70}
         /\ mt_out = 0 - 5 <=> d < 5000
         /\ mt_out = 0 - 20 <=> 5000 <= d /\ d < 15000
         /\ mt_out = 0 - 50 <=> 15000 <= d /\ d < 25000
         /\ mt_out = 0 - 70 <=> 25000 <= d
    /\ Returned("calculate_travel_fatigue") =>
         LET pair == {mt_call.away_team, mt_call.home_team} IN
         /\ pair = {"BOS", "LAL"} => mt_out = 0 - 70
         /\ pair = {"LAL", "NY"} => mt_out = 0 - 50
         /\ pair = {"BOS", "NY"} => mt_out = 0 - 5

\* Exactly 500 miles is in bucket 1.
C15_Witness ==
    Returned("travel_category") /\ mt_call.distance = 5000 /\ mt_out = 1

\* C16: calculate_travel_distance (of backtest_full_model and of
\* advanced_features, each with its own location table) returns 0 whenever
\* the away team or the home team has no entry in the table, for every pair
\* of teams; in run_full_backtest such a matchup still gets its feature
\* vector, with travel distance 0 and travel bucket 0.
C16_UnknownLocationIsZero ==
    /\ /\ Returned("calculate_travel_distance")
       /\ {mt_call.away_team, mt_call.home_team} \cap {"NYK", "NJN"} # {}
       => mt_out = 0
    /\ /\ Returned("af_calculate_travel_distance")
       /\ {mt_call.away_team, mt_call.home_team} \cap {"NY", "NJN"} # {}
       => mt_out = 0
    /\ LogsBuilt =>
         /\ Len(X_train) = Len(KeptTrain) /\ Len(X_test) = Len(KeptTest)
         /\ \A k \in 1..Len(KeptTrain) :
               {KeptTrain[k].home_team, KeptTrain[k].away_team}
                 \cap UnknownTeams # {}
               => X_train[k][5] = 0 /\ X_train[k][6] = 0
         /\ \A k \in 1..Len(KeptTest) :
               {KeptTest[k].home_team, KeptTest[k].away_team}
                 \cap UnknownTeams # {}
               => X_test[k][5] = 0 /\ X_test[k][6] = 0

\* A matchup whose away team has no location has its training row, with
\* distance 0 and bucket 0, next to a row with a coast-to-coast distance.
C16_Witness ==
    /\ Extracted
    /\ \E k \in 1..Len(KeptTrain) :
          /\ KeptTrain[k].away_team = "NJN"
          /\ X_train[k][5] = 0 /\ X_train[k][6] = 0
    /\ \E k \in 1..Len(X_train) : X_train[k][5] > 0

\* --- the feature vector ---------------------------------------------------
\* The relations among the components of a feature vector (components 0..11
\* of the code are 1..12 here).
VectorShape(row) ==
    /\ Len(row) = 12
    /\ row[3] = row[1] - row[2]
    /\ row[4] = 1
    /\ row[6] \in 0..3
    /\ row[6] = 0 <=> row[5] < 5000
    /\ row[6] = 3 <=> row[5] >= 25000
    /\ 0 <= row[7] /\ row[7] <= Q /\ 0 <= row[8] /\ row[8] <= Q
    /\ row[9] = row[7] - row[8]
    /\ row[12] = row[10] - row[11]

\* Win rate and average offensive rating of records, times Q.
WinPctOf(recs) ==
    IF recs = <<>> THEN Q \div 2
    ELSE (Cardinality({k \in 1..Len(recs) : recs[k].won}) * Q) \div Len(recs)

OffRatingOf(recs) ==
    IF recs = <<>> THEN 100 * Q
    ELSE (SumSeq([k \in 1..Len(recs) |-> recs[k].off_rating]) * Q) \div Len(recs)

\* The records of a team dated before a game, in the built logs (the logs of
\* the model hold fewer than ten records, so these are the latest ten).
PriorRecs(team, game) ==
    LET log == LogOf(team_logs, team) IN
    SelectSeq(log, LAMBDA r : StrictlyBefore(r, game))

\* The row of a game in run_full_backtest holds, at each position, the
\* quantity the order names.
BacktestRow(row, game) ==
    /\ VectorShape(row)
    /\ row[5] = calculate_travel_distance(game.away_team, game.home_team)
    /\ row[7] = WinPctOf(PriorRecs(game.home_team, game))
    /\ row[8] = WinPctOf(PriorRecs(game.away_team, game))
    /\ row[10] = OffRatingOf(PriorRecs(game.home_team, game))
    /\ row[11] = OffRatingOf(PriorRecs(game.away_team, game))
    /\ row[1] = row[10] - 112 * Q + (row[7] - Q \div 2) * 10
    /\ row[2] = row[11] - 112 * Q + (row[8] - Q \div 2) * 10

\* The row of a game in build_feature_matrix, from the fetched records.
InferenceRow(row, game, data) ==
    LET home == FetchedGames(data, game.home_team)
        away == FetchedGames(data, game.away_team)
    IN /\ VectorShape(row)
       /\ row[5] = calculate_travel_distance(game.away_team, game.home_team)
       /\ row[7] = WinPctOf(home) /\ row[8] = WinPctOf(away)
       /\ row[10] = OffRatingOf(home) /\ row[11] = OffRatingOf(away)
       /\ row[1] = IF home = <<>> THEN 0
                   ELSE row[10] - 112 * Q + (row[7] - Q \div 2) * 10
       /\ row[2] = IF away = <<>> THEN 0
                   ELSE row[11] - 112 * Q + (row[8] - Q \div 2) * 10

\* C17: every feature vector has exactly 12 components in the order
\* [home_net, away_net, net_diff, 1, travel_distance, travel_bucket,
\* home_win_pct, away_win_pct, win_pct_diff, home_off, away_off, off_diff],
\* with the three differences and the constant 1 in their places; the
\* training partition, the test partition and build_feature_matrix all use
\* this order and count.
C17_FeatureVectorOrder ==
    /\ LogsBuilt =>
         /\ \A k \in 1..Len(X_train) : BacktestRow(X_train[k], KeptTrain[k])
         /\ \A k \in 1..Len(X_test) : BacktestRow(X_test[k], KeptTest[k])
    /\ Returned("build_feature_matrix") =>
         /\ Len(mt_out.X) = Len(mt_call.games)
         /\ \A k \in 1..Len(mt_out.X) :
               InferenceRow(mt_out.X[k], mt_call.games[k], mt_call.data)

\* Training and test rows in which home and away differ in win rate and in
\* offensive rating.
C17_Witness ==
    /\ Extracted
    /\ \E k \in 1..Len(X_train) :
          X_train[k][9] # 0 /\ X_train[k][12] # 0 /\ X_train[k][6] = 3
    /\ \E k \in 1..Len(X_test) : X_test[k][9] # 0 /\ X_test[k][3] # 0

\* --- dates that do not parse ---------------------------------------------
\* C19: a matchup whose date string cannot be parsed never yields a feature
\* vector: the iteration of the loop that meets it adds no row and no label
\* and moves on to the next matchup of the partition, whose row is added as
\* usual if its date parses.
C19_UnparseableDateSkipped ==
    [][/\ pc = "train_loop" /\ i < Len(train_games) =>
            /\ pc' = "train_loop" /\ i' = i + 1
            /\ X_test' = X_test /\ y_test' = y_test
            /\ IF Parses(train_games[i + 1])
               THEN /\ Len(X_train') = Len(X_train) + 1
                    /\ y_train' = Append(y_train, Label(train_games[i + 1]))
               ELSE X_train' = X_train /\ y_train' = y_train
       /\ pc = "test_loop" /\ i < Len(test_games) =>
            /\ pc' = "test_loop" /\ i' = i + 1
            /\ X_train' = X_train /\ y_train' = y_train
            /\ IF Parses(test_games[i + 1])
               THEN /\ Len(X_test') = Len(X_test) + 1
                    /\ test_game_info' = Append(test_game_info, test_games[i + 1])
               ELSE /\ X_test' = X_test /\ y_test' = y_test
                    /\ test_game_info' = test_game_info]_vars

\* The first training matchup has a date that does not parse and no row; the
\* one after it has its row.
C19_Witness ==
    /\ Extracted /\ Len(train_games) = 2
    /\ ~Parses(train_games[1]) /\ Parses(train_games[2])
    /\ Len(X_train) = 1 /\ y_train = << Label(train_games[2]) >>

\* C20 as claimed: calculate_rest_differential returns the home team's rest
\* days minus the away team's, a team's rest days being the days from its
\* last game to the matchup date, so a positive result means the home team
\* played its last game earlier; it returns 0 when one of the two dates does
\* not parse.
C20_HomeRestMinusAwayRest ==
    Returned("calculate_rest_differential") =>
       LET h == mt_call.home_last_game
           a == mt_call.away_last_game
           g == mt_call.game_date
       IN /\ h.fmt = "bad" \/ a.fmt = "bad" => mt_out = 0
          /\ h.fmt # "bad" /\ a.fmt # "bad" /\ g.fmt # "bad" =>
                /\ mt_out = (g.day - h.day) - (g.day - a.day)
                /\ mt_out > 0 <=> h.day < a.day

\* C21: calculate_possessions never decreases when FGA, FTA or TOV grows and
\* never increases when OREB grows, the other three arguments held fixed:
\* the value returned for a box score is at most the value for every box
\* score with more FGA, FTA or TOV and at least the value for every box
\* score with more OREB.
C21_PossessionsMonotone ==
    Returned("calculate_possessions") =>
       LET c == mt_call IN
       /\ mt_out = 100 * c.fga + 44 * c.fta - 100 * c.oreb + 100 * c.tov
       /\ \A fga \in BoxFga : fga >= c.fga =>
             mt_out <= calculate_possessions(fga, c.fta, c.oreb, c.tov)
       /\ \A fta \in BoxFta : fta >= c.fta =>
             mt_out <= calculate_possessions(c.fga, fta, c.oreb, c.tov)
       /\ \A tov \in BoxTov : tov >= c.tov =>
             mt_out <= calculate_possessions(c.fga, c.fta, c.oreb, tov)
       /\ \A oreb \in BoxOreb : oreb >= c.oreb =>
             mt_out >= calculate_possessions(c.fga, c.fta, oreb, c.tov)

\* The estimate of the smallest box score with no offensive rebound: every
\* argument has a larger value to compare with.
C21_Witness ==
    /\ Returned("calculate_possessions")
    /\ mt_call.fga = 5 /\ mt_call.fta = 0 /\ mt_call.oreb = 0
    /\ mt_call.tov = 5 /\ mt_out = 1000

\* C22: the net rating of a side is (average offensive rating - 112) +
\* (win rate - 0.5) * 10 over that side's selected games, and
\* compute_net_rating and get_team_net_rating both return this value for
\* every non-empty list of games.  With n games, the sum of their offensive
\* ratings and the number of wins: n * rating = sum - 112 n + 10 wins - 5 n.
C22_NetRatingFormula ==
    Returned("net_rating") /\ mt_call.games # <<>> =>
       LET g == mt_call.games
           n == Len(g)
           total == SumSeq([k \in 1..n |-> g[k].off_rating])
           wins == Cardinality({k \in 1..n : g[k].won})
           expected == Q * (total - AVG_NBA_RATING * n + 10 * wins - 5 * n)
       IN /\ n * mt_out.compute_net_rating = expected
          /\ n * mt_out.get_team_net_rating = expected

\* Three games, one won with rating 120 and two lost with rating 100:
\* (320/3 - 112) + (1/3 - 1/2) * 10 = -7.
C22_Witness ==
    /\ Returned("net_rating") /\ Len(mt_call.games) = 3
    /\ Cardinality({k \in 1..3 : mt_call.games[k].won}) = 1
    /\ \A k \in 1..3 :
          mt_call.games[k].off_rating
            = (IF mt_call.games[k].won THEN 120 ELSE 100)
    /\ mt_out.compute_net_rating = (0 - 7) * Q
    /\ mt_out.get_team_net_rating = (0 - 7) * Q

\* C28: for a team with no usable games the two net-rating paths disagree:
\* compute_net_rating on the neutral default averages (offensive rating 100,
\* win rate 0.5) gives -12, get_team_net_rating gives 0 for the empty list;
\* for every non-empty list the two agree.  build_feature_matrix therefore
\* gives a team without games the net rating 0 next to the neutral offensive
\* rating 100, while run_full_backtest gives it -12.
C28_EmptyListDisagree ==
    /\ Returned("net_rating") =>
         IF mt_call.games = <<>>
         THEN /\ mt_out.compute_net_rating = (0 - 12) * Q
              /\ mt_out.get_team_net_rating = 0
         ELSE mt_out.compute_net_rating = mt_out.get_team_net_rating
    /\ Returned("build_feature_matrix") =>
         \A k \in 1..Len(mt_call.games) :
            /\ FetchedGames(mt_call.data, mt_call.games[k].home_team) = <<>>
                => mt_out.X[k][1] = 0 /\ mt_out.X[k][10] = 100 * Q
            /\ FetchedGames(mt_call.data, mt_call.games[k].away_team) = <<>>
                => mt_out.X[k][2] = 0 /\ mt_out.X[k][11] = 100 * Q
    /\ Extracted =>
         /\ \A k \in 1..Len(KeptTrain) :
               /\ ~HasPrior(KeptTrain[k].home_team, KeptTrain[k])
                   => X_train[k][1] = (0 - 12) * Q
               /\ ~HasPrior(KeptTrain[k].away_team, KeptTrain[k])
                   => X_train[k][2] = (0 - 12) * Q
         /\ \A k \in 1..Len(KeptTest) :
               /\ ~HasPrior(KeptTest[k].home_team, KeptTest[k])
                   => X_test[k][1] = (0 - 12) * Q
               /\ ~HasPrior(KeptTest[k].away_team, KeptTest[k])
                   => X_test[k][2] = (0 - 12) * Q

\* The empty list has been given to both paths.
C28_Witness ==
    /\ Returned("net_rating") /\ mt_call.games = <<>>
    /\ mt_out.compute_net_rating = (0 - 12) * Q
    /\ mt_out.get_team_net_rating = 0

\* --- the game-fetch functions ---------------------------------------------
\* The teams of the call whose request succeeded.
FetchedTeams ==
    {mt_call.test_teams[k] : k \in 1..Len(mt_call.test_teams)}
      \ mt_call.failed

\* The returned record r is the real game g.
Represents(r, g) ==
    /\ ABBREV_ALIASES(r.home_team) = ABBREV_ALIASES(g.home)
    /\ ABBREV_ALIASES(r.away_team) = ABBREV_ALIASES(g.away)
    /\ r.game_date = g.date

\* The first team in fetch order, of the two of g, whose request succeeded.
FirstFetched(g) ==
    LET idx == {k \in 1..Len(mt_call.test_teams) :
                  /\ mt_call.test_teams[k] \in FetchedTeams
                  /\ ProviderAbbrev(mt_call.test_teams[k]) \in {g.home, g.away}}
    IN mt_call.test_teams[CHOOSE k \in idx : \A j \in idx : k <= j]

UniqueGames(op) ==
    Returned(op) =>
       /\ \A k, m \in 1..Len(mt_out) :
             k # m => matchup_key(mt_out[k]) # matchup_key(mt_out[m])
       /\ \A n \in 1..Len(mt_call.schedule) :
             LET g == mt_call.schedule[n] IN
             {ABBREV_ALIASES(g.home), ABBREV_ALIASES(g.away)}
                \subseteq FetchedTeams =>
               /\ Cardinality({k \in 1..Len(mt_out) :
                                 Represents(mt_out[k], g)}) = 1
               /\ \A k \in 1..Len(mt_out) :
                     Represents(mt_out[k], g) =>
                        mt_out[k].matchup.team
                          = ProviderAbbrev(FirstFetched(g))

\* C23 as claimed: the game-fetch functions return a list of unique games:
\* no two returned games share the same (home_team, away_team, game_date),
\* and a game that is in the logs of both of its teams is returned exactly
\* once, as the record of the log fetched first.
C23_UniqueGames ==
    /\ UniqueGames("fetch_historical_games")
    /\ UniqueGames("fetch_full_season_games")

\* C25: every abbreviation of the provider's official set, mapped through
\* ABBREV_ALIASES, is a key of NBA_TEAM_IDS and of the imported
\* TEAM_LOCATIONS; so every team of a game fetch_historical_games returns is
\* such a key: build_team_game_logs puts none of them in unknown_teams, and
\* calculate_travel_distance does not take its unknown-location return for
\* them.
C25_NoTeamSkipped ==
    Returned("fetch_historical_games") =>
       /\ \A o \in OfficialAbbrevs :
             ABBREV_ALIASES(o) \in AllTeamIds \cap AllTeamLocations
       /\ LET all_teams == {mt_out[k].home_team : k \in 1..Len(mt_out)}
                           \cup {mt_out[k].away_team : k \in 1..Len(mt_out)}
              known_teams == {t \in all_teams : t \in AllTeamIds}
              unknown_teams == all_teams \ known_teams
          IN /\ unknown_teams = {}
             /\ \A k \in 1..Len(mt_out) :
                   ~(mt_out[k].away_team \notin AllTeamLocations
                     \/ mt_out[k].home_team \notin AllTeamLocations)

\* The Lakers' log has a game at 'GSW' and a game at 'NYK'; the
\* returned games name GS and NY.
C25_Witness ==
    /\ Returned("fetch_historical_games")
    /\ \E k \in 1..Len(mt_out) :
          /\ mt_out[k].matchup.opponent = "GSW" /\ mt_out[k].home_team = "GS"
          /\ mt_out[k].matchup.team = "LAL"
    /\ \E k \in 1..Len(mt_out) :
          /\ mt_out[k].matchup.opponent = "NYK" /\ mt_out[k].home_team = "NY"
          /\ mt_out[k].matchup.team = "LAL"

\* --- the order of split and extraction ------------------------------------
\* C24 as claimed: the split index is computed over the matchups that gave a
\* feature vector: with m vectors in all, the training matrix has exactly
\* floor(0.75 m) rows.
C24_SplitOverSurvivors ==
    Extracted =>
       LET m == Len(X_train) + Len(X_test)
       IN Len(X_train) = (3 * m) \div 4

\* C24 as amended: the chronological split precedes feature extraction.  No
\* feature vector exists before the split; the split index is floor(0.75 n)
\* over all n matchups passed in, and extraction then goes through each
\* partition on its own, so the training matrix has floor(0.75 n) rows less
\* the training matchups skipped, and the test matrix the remaining n -
\* floor(0.75 n) less the test matchups skipped.
C24_SplitPrecedesExtraction ==
    /\ ~Split => X_train = <<>> /\ X_test = <<>>
    /\ Split => Len(train_games) = (3 * Len(games)) \div 4
    /\ Extracted =>
         LET n == Len(games)
             skipped_train == Cardinality({k \in 1..Len(train_games) :
                                             ~Parses(train_games[k])})
             skipped_test == Cardinality({k \in 1..Len(test_games) :
                                            ~Parses(test_games[k])})
         IN /\ Len(X_train) = (3 * n) \div 4 - skipped_train
            /\ Len(X_test) = n - (3 * n) \div 4 - skipped_test

\* Five matchups, one with a date that does not parse: it is sorted first and
\* skipped in the training partition, so four vectors are split 2 / 2, not
\* 3 / 1.
C24_Witness ==
    /\ Extracted /\ Len(games) = 5
    /\ Len(train_games) = 3 /\ ~Parses(train_games[1])
    /\ Len(X_train) = 2 /\ Len(X_test) = 2

\* C27: in run_full_backtest rows, labels and game records stay aligned
\* under skipping: at every point of the two loops X_train and y_train have
\* the same length, and so have X_test, y_test and test_game_info; the k-th
\* label is 1 exactly if the k-th kept game was won at home, the k-th row
\* has the travel distance of the k-th kept game's teams, test_game_info is
\* the list of kept test games, and the kept games are in the order of the
\* sorted list.
C27_RowsLabelsAligned ==
    LogsBuilt =>
       /\ Len(X_train) = Len(y_train) /\ Len(X_train) = Len(KeptTrain)
       /\ Len(X_test) = Len(y_test) /\ Len(X_test) = Len(test_game_info)
       /\ test_game_info = KeptTest
       /\ \A k \in 1..Len(y_train) :
             /\ y_train[k] = (IF KeptTrain[k].home_won THEN 1 ELSE 0)
             /\ X_train[k][5] = calculate_travel_distance(
                                   KeptTrain[k].away_team,
                                   KeptTrain[k].home_team)
       /\ \A k \in 1..Len(y_test) :
             /\ y_test[k] = (IF test_game_info[k].home_won THEN 1 ELSE 0)
             /\ X_test[k][5] = calculate_travel_distance(
                                  test_game_info[k].away_team,
                                  test_game_info[k].home_team)
       /\ \A k \in 1..(Len(KeptTrain) - 1) :
             DateKey(KeptTrain[k]) <= DateKey(KeptTrain[k + 1])
       /\ \A k \in 1..(Len(test_game_info) - 1) :
             DateKey(test_game_info[k]) <= DateKey(test_game_info[k + 1])
       /\ Extracted /\ KeptTrain # <<>> /\ test_game_info # <<>> =>
             DateKey(KeptTrain[Len(KeptTrain)]) <= DateKey(test_game_info[1])

\* Both loops have ended; the training loop skipped its first game and kept
\* two with different results, the test loop kept its game.
C27_Witness ==
    /\ Extracted /\ Len(train_games) = 3 /\ ~Parses(train_games[1])
    /\ Len(X_train) = 2 /\ y_train = << 1, 0 >>
    /\ train_games[2].home_won /\ ~train_games[3].home_won
    /\ test_game_info = test_games /\ Len(test_game_info) = 1

\* --- _make_request --------------------------------------------------------
\* The attempt is followed by another one.
Retried(r) ==
    \/ r.raised
    \/ r.status_code = 429
    \/ r.status_code = 200 /\ r.body = NoBody

\* C26 as claimed: _make_request makes at most 3 attempts; an attempt with
\* status 200 is the last one and the function returns its parsed response;
\* an attempt with a status other than 200 and 429 is the last one and the
\* function returns None; an attempt with status 429 or an exception is
\* followed by another while attempts remain; after 3 attempts with 429 or an
\* exception the function returns None.
C26_ReturnsOnFirst200 ==
    /\ Len(rq_log) <= 3
    /\ \A k \in 1..Len(rq_log) :
          LET r == rq_log[k] IN
          /\ ~r.raised /\ r.status_code = 200 =>
                /\ k = Len(rq_log) /\ rq_pc = "returned"
                /\ rq_ret # None /\ rq_ret = r.body
          /\ ~r.raised /\ r.status_code \notin {200, 429} =>
                k = Len(rq_log) /\ rq_pc = "returned" /\ rq_ret = None
          /\ (r.raised \/ r.status_code = 429) /\ k = Len(rq_log) /\ k < 3
                => rq_pc = "loop"
    /\ rq_pc = "returned" /\ Len(rq_log) = 3
         /\ (\A k \in 1..3 : Retried(rq_log[k]))
         => rq_ret = None

\* What holds at every point of a call.
RequestInv ==
    /\ attempt <= 3 /\ Len(rq_log) <= 3
    /\ rq_pc = "loop" =>
         /\ Len(rq_log) = attempt
         /\ \A k \in 1..Len(rq_log) : Retried(rq_log[k])
    /\ rq_pc = "returned" =>
         /\ \A k \in 1..(Len(rq_log) - 1) : Retried(rq_log[k])
         /\ \/ /\ Len(rq_log) = 3 /\ Retried(rq_log[3]) /\ rq_ret = None
            \/ /\ rq_log # <<>>
               /\ LET r == rq_log[Len(rq_log)] IN
                  \/ /\ ~r.raised /\ r.status_code = 200 /\ r.body # NoBody
                     /\ rq_ret = r.body
                  \/ /\ ~r.raised /\ r.status_code \notin {200, 429}
                     /\ rq_ret = None

\* C26 as amended: _make_request always returns, after at most 3 HTTP
\* attempts.  It returns the parsed response at the first attempt whose
\* status is 200 and whose body parses, and None at once at the first
\* attempt whose status is neither 200 nor 429; it goes on to the next
\* attempt after a 429, after an exception of requests.get, and after a
\* status-200 response whose body does not parse (response.json() raises
\* inside the try); it returns None when 3 attempts have ended in one of
\* these three ways.
C26_BoundedRetries == []RequestInv /\ <>(rq_pc = "returned")

\* A status-200 response that does not parse, a 429, and a status-200
\* response that parses and is returned at the third attempt.
C26_Witness ==
    /\ rq_pc = "returned" /\ Len(rq_log) = 3
    /\ rq_log[1] = [raised |-> FALSE, status_code |-> 200, body |-> NoBody]
    /\ rq_log[2].status_code = 429
    /\ rq_log[3].status_code = 200 /\ rq_ret = rq_log[3].body /\ rq_ret = 2
    /\ rq_slept = 3

\* --- run_backtest without an injury tracker -------------------------------
\* C29: run_backtest called without an injury tracker predicts a home win
\* for every game, whatever the two teams: the probability is 0.535 plus the
\* size of the travel impact, above 0.5, so a prediction is correct exactly
\* if the home team won, and the number of correct predictions is the number
\* of games with home_won true, during the loop and in the returned tuple.
C29_AlwaysHomeWithoutTracker ==
    ~se_tracker.is_tracker =>
       /\ \A k \in 1..Len(se_results) :
             LET r == se_results[k]
                 travel == calculate_travel_fatigue(se_games[k].away_team,
                                                    se_games[k].home_team)
             IN /\ r.prob = 535 + Abs(travel) /\ r.prob > 500
                /\ r.predicted_home_wins
                /\ r.correct = se_games[k].home_won
       /\ se_correct = Cardinality({k \in 1..se_total : se_games[k].home_won})
       /\ se_pc \in {"returned", "displayed"} =>
             /\ se_ret.total = Len(se_games)
             /\ se_ret.correct
                  = Cardinality({k \in 1..Len(se_games) : se_games[k].home_won})
       /\ se_pc = "returned_empty" => se_ret = << 0, 0, 0 >>

\* Three games without a tracker, among them a coast-to-coast trip lost by
\* the home team: predicted for the home team at 0.605, counted wrong.
C29_Witness ==
    /\ se_pc = "returned" /\ ~se_tracker.is_tracker /\ Len(se_games) = 3
    /\ se_ret.correct = 1
    /\ \E k \in 1..3 :
          /\ se_results[k].prob = 605 /\ se_results[k].predicted_home_wins
          /\ ~se_games[k].home_won /\ ~se_results[k].correct

\* --- backtest_accuracy ----------------------------------------------------
\* The test slice of the call.
AccuracyTestGames ==
    LET n == Len(mt_call.games)
    IN SubSeq(mt_call.games, (n * mt_call.train_split) \div 10 + 1, n)

\* C30 as claimed: the prediction of backtest_model is the record's own
\* result game['won'], so a test record is counted correct exactly if the
\* fetched team was the home team, and the accuracy is the fraction of home
\* records in the test slice, whatever the results.
C30_CorrectIffHome ==
    Returned("backtest_model") /\ mt_call.games # <<>> =>
       LET test == AccuracyTestGames
           home == Cardinality({k \in 1..Len(test) : test[k].is_home})
       IN /\ \A k \in 1..Len(test) :
                /\ mt_out.results[k].predicted = test[k].won
                /\ mt_out.results[k].correct = test[k].is_home
          /\ mt_out.correct = home
          /\ mt_out.accuracy * Len(test) = home * 100 * Q

\* C30 as amended: the prediction is read from the record itself: it is
\* game['won'], except for a home record without opponent points, where it
\* is True.  An away record is never counted correct, a home record with
\* opponent points always, a home record without them exactly if the team
\* won; the accuracy is the percentage of such records in the test slice,
\* which is never empty for a non-empty list.
C30_PredictionReadFromRecord ==
    Returned("backtest_model") /\ mt_call.games # <<>> =>
       LET test == AccuracyTestGames
           counted == {k \in 1..Len(test) :
                         /\ test[k].is_home
                         /\ test[k].opp_pts # None \/ test[k].won}
       IN /\ test # <<>> /\ Len(mt_out.results) = Len(test)
          /\ \A k \in 1..Len(test) :
                /\ mt_out.results[k].predicted
                     = (IF test[k].is_home /\ test[k].opp_pts = None
                        THEN TRUE ELSE test[k].won)
                /\ mt_out.results[k].correct = (k \in counted)
          /\ mt_out.total = Len(test)
          /\ mt_out.correct = Cardinality(counted)
          /\ mt_out.accuracy * Len(test) = Cardinality(counted) * 100 * Q
          /\ mt_out.returned
               = << mt_out.accuracy, mt_out.correct, mt_out.total >>

\* Three home records, all lost, one of them with opponent points: one of
\* three is counted correct.
C30_Witness ==
    /\ Returned("backtest_model") /\ mt_call.train_split = 0
    /\ Len(mt_call.games) = 3
    /\ \A k \in 1..3 : mt_call.games[k].is_home /\ ~mt_call.games[k].won
    /\ Cardinality({k \in 1..3 : mt_call.games[k].opp_pts = None}) = 2
    /\ mt_out.correct = 1 /\ mt_out.total = 3

====
